---- MODULE Spec2Model ----
(***************************************************************************)
(* Old Bailey trial extraction: liboldbailey/process.py.                   *)
(*                                                                         *)
(* parse_xml walks the trial records of one document; parse_trial_tag      *)
(* extracts the persons, offences, verdicts and punishments of a record    *)
(* into ID-keyed maps and reconciles the criminalCharge join groups into   *)
(* Charges.  The document is revealed as it is scanned: every loop         *)
(* iteration draws the next tag (or join group) from a small sample set.   *)
(*                                                                         *)
(* Encodings.  Text is a sequence of one-character strings.  Optional[T]   *)
(* is a sequence of length at most one (<<>> is None).  A python dict is a *)
(* function whose DOMAIN is the key set.  The result of parse_trial_tag is *)
(* a record tagged by "kind" ("None" or "TrialData").  A tag is a record   *)
(* of the attributes and sub-elements the extractor reads; an attribute or *)
(* required sub-element the tag lacks is a field the record lacks.         *)
(***************************************************************************)
EXTENDS Integers, Sequences, FiniteSets, TLC

VARIABLES
    trial_tags,     \* parse_xml: the trial records of the document, in order
    pc,             \* position in parse_xml / parse_trial_tag
    i,              \* iterations done by the loop the program is in
    trial_id, date, \* header of the current record
    corrected,
    persons, defendants, victims,
    victim_joins, offences,
    verdicts,
    punish_joins, punishments,
    charge_join,    \* the join group of the current charge loop iteration
    charges,
    result,         \* value returned by parse_trial_tag
    exc,            \* exception raised by parse_trial_tag: type and line
    trial_datas,    \* parse_xml: results appended so far
    xml_status      \* parse_xml: "running", "returned" or the error raised

\* process_data_xml_folder_to_trials_per_date and find_victorian_files
VARIABLES
    data_xml_folder,    \* the folder argument: is it a directory, its entries
    min_year, max_year,
    cpc,                \* position in process_data_xml_folder_to_trials_per_date
    potential_xmls,     \* find_victorian_files: the glob result, in glob order
    scanned,            \* find_victorian_files: loop iterations done
    victorian_files,
    files,
    tasks,              \* Pool.map: state of the task of each file
    trials_list_per_date,   \* Pool.map: the result slots, in file order
    pool_exc,           \* Pool.map: the first exception a task ended in
    completion,         \* the tasks that have ended, in the order they ended
    trials_per_date,
    run_status          \* "running", "returned" or the error raised

\* the main of categorise_offences
VARIABLES
    rpc,                \* position in main
    total, skipped,
    corrected_trials,   \* the counter main calls corrected
    offence_summaries,
    offence_full_infos,
    sheets,             \* write_full_sheets: the rows written, by offence key
    report_status       \* "running", "returned", "written" or the error raised

corpus == <<data_xml_folder, min_year, max_year, cpc, potential_xmls, scanned,
            victorian_files, files, tasks, trials_list_per_date, pool_exc,
            completion, trials_per_date, run_status>>

\* the variables of parse_xml and parse_trial_tag
parse == <<trial_tags, pc, i, trial_id, date, corrected, persons, defendants, victims,
           victim_joins, offences, verdicts, punish_joins, punishments,
           charge_join, charges, result, exc, trial_datas, xml_status>>

\* the variables of the main of categorise_offences
report == <<rpc, total, skipped, corrected_trials, offence_summaries,
            offence_full_infos, sheets, report_status>>

vars == <<parse, corpus, report>>

(***************************************************************************)
(* Bounds of the model.                                                    *)
(***************************************************************************)
\* size of one trial record: the entities it defines (map entries) plus its
\* criminalCharge join groups
MaxRecord == 6
\* tags one extraction loop scans (repeated IDs included)
MaxScan == 3
\* IDs in one criminalCharge join group
MaxGroupLen == 4
\* trial records in a document of several records
MaxTrials == 2
\* entries of a folder
MaxFiles == 3
\* trials of the mapping a report folds in
MaxFold == 2
\* worker processes of the pool
PoolSize == 8

None == <<>>
Some(x) == <<x>>
EmptyDict == [k \in {} |-> None]

Range(s) == {s[k] : k \in DOMAIN s}
\* the tag carries attribute (or sub-element) a
Has(tag, a) == a \in DOMAIN tag
Values(d) == {d[k] : k \in DOMAIN d}
Put(d, k, v) == [x \in DOMAIN d \cup {k} |-> IF x = k THEN v ELSE d[x]]

(***************************************************************************)
(* Text normalizer.                                                        *)
(***************************************************************************)
LowerCase == <<"a", "e", "g", "h", "i", "j", "l", "m", "n", "o", "s", "w", "x", "y">>
UpperCase == <<"A", "E", "G", "H", "I", "J", "L", "M", "N", "O", "S", "W", "X", "Y">>
Whitespace == {" ", "\n"}

IsLower(c) == \E k \in DOMAIN LowerCase : LowerCase[k] = c
IsUpper(c) == \E k \in DOMAIN UpperCase : UpperCase[k] = c
IsCased(c) == IsLower(c) \/ IsUpper(c)
ToUpper(c) == IF IsLower(c)
              THEN UpperCase[CHOOSE k \in DOMAIN LowerCase : LowerCase[k] = c]
              ELSE c
ToLower(c) == IF IsUpper(c)
              THEN LowerCase[CHOOSE k \in DOMAIN UpperCase : UpperCase[k] = c]
              ELSE c

RECURSIVE LStrip(_)
LStrip(t) == IF t # <<>> /\ Head(t) \in Whitespace THEN LStrip(Tail(t)) ELSE t

RECURSIVE RStrip(_)
RStrip(t) == IF t # <<>> /\ t[Len(t)] \in Whitespace
             THEN RStrip(SubSeq(t, 1, Len(t) - 1))
             ELSE t

Strip(t) == RStrip(LStrip(t))

\* re.sub(r'\s+', " ", t): every maximal run of whitespace becomes one space
RECURSIVE CollapseWhitespace(_)
CollapseWhitespace(t) ==
    IF t = <<>> THEN <<>>
    ELSE IF Head(t) \in Whitespace
         THEN <<" ">> \o CollapseWhitespace(LStrip(t))
         ELSE <<Head(t)>> \o CollapseWhitespace(Tail(t))

normalize_text(text) == CollapseWhitespace(Strip(text))

\* str.title(): a cased character is upper-cased when the character before
\* it is not cased, lower-cased otherwise
Title(t) ==
    [k \in DOMAIN t |->
        IF k > 1 /\ IsCased(t[k - 1]) THEN ToLower(t[k]) ELSE ToUpper(t[k])]

normalize_text_titlecase(text) == Title(normalize_text(text))

Digits == <<"0", "1", "2", "3", "4", "5", "6", "7", "8", "9">>
IsDigit(c) == \E k \in DOMAIN Digits : Digits[k] = c
DigitVal(c) == (CHOOSE k \in DOMAIN Digits : Digits[k] = c) - 1

RECURSIVE DecimalValue(_)
DecimalValue(t) ==
    IF t = <<>> THEN 0
    ELSE 10 * DecimalValue(SubSeq(t, 1, Len(t) - 1)) + DigitVal(t[Len(t)])

\* int(s): blanks around the literal are dropped, one sign may lead it, and
\* single underscores may separate its digits
Signs == {"+", "-"}
Unsigned(t) ==
    LET s == Strip(t)
    IN  IF s # <<>> /\ Head(s) \in Signs THEN Tail(s) ELSE s

IsIntLiteral(t) ==
    LET u == Unsigned(t)
    IN  /\ u # <<>>
        /\ IsDigit(u[1]) /\ IsDigit(u[Len(u)])
        /\ \A k \in DOMAIN u : IsDigit(u[k]) \/ u[k] = "_"
        /\ \A k \in 1..(Len(u) - 1) : ~(u[k] = "_" /\ u[k + 1] = "_")

IntValue(t) ==
    LET s == Strip(t)
        magnitude == DecimalValue(SelectSeq(Unsigned(t), IsDigit))
    IN  IF Head(s) = "-" THEN 0 - magnitude ELSE magnitude

(***************************************************************************)
(* Sample documents.  A tag carries the attributes and text the extractor  *)
(* reads; the optional interp sub-elements are Optional raw values.        *)
(***************************************************************************)
\* the div1 trialAccount elements of a document: id attribute and date value
TrialTagSamples ==
    { [id |-> "t1", date |-> <<"1", "8", "4", "5", "0", "1", "0", "6">>] }

\* records without an id attribute, without a date element, and with date
\* values that are no date
TrialTagMalformed ==
    { [date |-> <<"1", "8", "4", "5", "0", "1", "0", "6">>],
      [id |-> "t2"],
      [id |-> "t3", date |-> <<"1", "8", "4", "5", "x", "1", "0", "6">>],
      [id |-> "t4", date |-> <<"1", "8", "4", "5", "0", "2", "3", "0">>],
      [id |-> "t6", date |-> <<"1", "8", "4", "5", "0", "1", "0", "6", "1">>] }

\* a record of the day after, and records whose month or day has one digit
TrialTagMore ==
    { [id |-> "t5", date |-> <<"1", "8", "4", "5", "0", "1", "0", "7">>],
      [id |-> "t7", date |-> <<"1", "8", "4", "5", "1", "0", "6">>],
      [id |-> "t8", date |-> <<"1", "8", "4", "5", "1", "6">>] }

\* documents with no trial record and with one
DocumentSamples == {<<>>} \cup {<<t>> : t \in TrialTagSamples}

\* documents of several records: every sequence of one to MaxTrials records
\* that are well-formed or malformed in the header
FileSamples ==
    LET tags == TrialTagSamples \cup TrialTagMore \cup TrialTagMalformed
    IN  UNION { [1..n -> tags] : n \in 1..MaxTrials }

DefendantTagSamples ==
    { [type |-> "defendantName", id |-> "d1", gender |-> None,
       text |-> <<"j", "o", " ", "a", "l">>, age |-> Some(<<"3", "0">>),
       occupation |-> None],
      [type |-> "defendantName", id |-> "d2", gender |-> Some(<<"m", "a", "l", "e">>),
       text |-> <<"m", "o">>, age |-> None,
       occupation |-> None] }

\* d1 again: the same fields written differently, and a different age
DefendantTagVariants ==
    { [type |-> "defendantName", id |-> "d1", gender |-> None,
       text |-> <<" ", "J", "O", "\n", " ", "a", "l">>, age |-> Some(<<"3", "0">>),
       occupation |-> None],
      [type |-> "defendantName", id |-> "d1", gender |-> None,
       text |-> <<"j", "o", " ", "a", "l">>, age |-> Some(<<"3", "x">>),
       occupation |-> None] }

\* defendants whose age is written with a sign, blanks or a separator and
\* whose occupation is and is not a name of the occupation table
DefendantTagDetails ==
    { [type |-> "defendantName", id |-> "d1", gender |-> None,
       text |-> <<"j", "o", " ", "a", "l">>, age |-> Some(<<"-", "5">>),
       occupation |-> Some(<<"m", "a", "l", "o">>)],
      [type |-> "defendantName", id |-> "d1", gender |-> None,
       text |-> <<"j", "o", " ", "a", "l">>, age |-> Some(<<" ", "+", "3", "_", "0">>),
       occupation |-> Some(<<" ", "j", "A", "M", "\n", "m", "o", " ">>)],
      [type |-> "defendantName", id |-> "d2", gender |-> Some(<<"m", "a", "l", "e">>),
       text |-> <<"m", "o">>, age |-> Some(<<"-", "0">>),
       occupation |-> Some(<<"o", "x">>)],
      [type |-> "defendantName", id |-> "d2", gender |-> Some(<<"m", "a", "l", "e">>),
       text |-> <<"m", "o">>, age |-> Some(<<"5", "-">>),
       occupation |-> Some(<<"l", "a", "x">>)],
      [type |-> "defendantName", id |-> "d2", gender |-> Some(<<"m", "a", "l", "e">>),
       text |-> <<"m", "o">>, age |-> None,
       occupation |-> Some(<<"M", "o", "l", "a">>)],
      [type |-> "defendantName", id |-> "d2", gender |-> Some(<<"m", "a", "l", "e">>),
       text |-> <<"m", "o">>, age |-> None,
       occupation |-> Some(<<"j", "o">>)] }

\* a defendant tag without an id attribute
DefendantTagMalformed ==
    { [type |-> "defendantName", gender |-> None,
       text |-> <<"m", "o">>, age |-> None, occupation |-> None] }

VictimTagSamples ==
    { [type |-> "victimName", id |-> "p1", gender |-> None,
       text |-> <<"a", "l">>, age |-> None, occupation |-> None] }

OffenceTagSamples ==
    { [id |-> "o1", category |-> "theft", subcategory |-> Some("grandLarceny"),
       text |-> <<"o", "x">>],
      [id |-> "o2", category |-> "kill", subcategory |-> None,
       text |-> <<"a", "x">>] }

OffenceTagVariants ==
    { [id |-> "o1", category |-> "theft", subcategory |-> None,
       text |-> <<"o", "x">>] }

\* offence tags without an id attribute and without an offenceCategory
OffenceTagMalformed ==
    { [category |-> "theft", subcategory |-> None, text |-> <<"o", "x">>],
      [id |-> "o3", subcategory |-> None, text |-> <<"o", "x">>] }

VerdictTagSamples ==
    { [id |-> "v1", category |-> "guilty", subcategory |-> None],
      [id |-> "v2", category |-> "notGuilty", subcategory |-> None] }

VerdictTagVariants ==
    { [id |-> "v1", category |-> "notGuilty", subcategory |-> None] }

VerdictTagMalformed ==
    { [category |-> "guilty", subcategory |-> None],
      [id |-> "v3", subcategory |-> None] }

PunishmentTagSamples ==
    { [id |-> "u1", category |-> "imprison", subcategory |-> None,
       text |-> <<"j", "a", "l">>] }

PunishmentTagVariants ==
    { [id |-> "u1", category |-> "transport", subcategory |-> None,
       text |-> <<"j", "a", "l">>] }

PunishmentTagMalformed ==
    { [category |-> "imprison", subcategory |-> None, text |-> <<"j", "a", "l">>],
      [id |-> "u3", subcategory |-> None, text |-> <<"j", "a", "l">>] }

\* a join element whose targets attribute lists the given IDs, and the join
\* elements of a list of such groups
JoinTag(targets) == [targets |-> targets]
JoinTags(groups) == [k \in DOMAIN groups |-> JoinTag(groups[k])]

\* the offenceVictim / defendantPunishment join elements of a record
VictimJoinSamples == { JoinTags(<< <<"o1", "p1">> >>) }
PunishJoinSamples == { JoinTags(<< <<"d1", "u1">> >>) }

\* a join element without a targets attribute after one that has it
VictimJoinMalformed ==
    { << JoinTag(<<"o1", "p1">>), [result |-> "offenceVictim"] >> }
PunishJoinMalformed ==
    { << JoinTag(<<"d1", "u1">>), [result |-> "defendantPunishment"] >> }

\* a second victim, and a second punishment
VictimTagVariants ==
    { [type |-> "victimName", id |-> "p2", gender |-> None,
       text |-> <<"m", "a", "x">>, age |-> None, occupation |-> None] }

PunishmentTagMore ==
    { [id |-> "u2", category |-> "miscPunish", subcategory |-> Some("fine"),
       text |-> <<"o">>] }

\* offenceVictim join elements: none; a pair named by two elements; a group
\* of two offences; a group that also names a defendant; a group naming the
\* victim twice; two groups of one offence with one victim each
VictimJoinVariants ==
  { JoinTags(groups) : groups \in
    { <<>>,
      << <<"o1", "p1">>, <<"o1", "p1">> >>,
      << <<"o1", "o2", "p1">> >>,
      << <<"o1", "d1", "p1">> >>,
      << <<"o1", "p1", "p1">> >>,
      << <<"o1", "p2">>, <<"p1", "o1">> >> } }

\* defendantPunishment join elements: none; a group naming a victim; a group
\* naming a defendant and a victim; two groups of one punishment; a group of
\* the punishment alone; a group of another punishment
PunishJoinVariants ==
  { JoinTags(groups) : groups \in
    { <<>>,
      << <<"p1", "u1">> >>,
      << <<"d1", "p1", "u1">> >>,
      << <<"d1", "u1">>, <<"d2", "u1">> >>,
      << <<"u1">> >>,
      << <<"d1", "u2">> >> } }

(***************************************************************************)
(* parse_occupation_csv.  A row of the table holds the cells of its three  *)
(* columns by their text; read_csv yields NaN for a cell of no text.       *)
(***************************************************************************)
NaN == <<>>

\* str(cell)
str(cell) == IF cell = NaN THEN <<"n", "a", "n">> ELSE cell

lower(t) == [k \in DOMAIN t |-> ToLower(t[k])]

\* re.search('[a-zA-Z]', occ_name)
HasLetter(t) == \E k \in DOMAIN t : IsCased(t[k])

\* an Occupation that leaves the skill undecided
Occupation_Unskilled(occ_name, working_class, skilled) ==
    LET class_code == Strip(lower(str(working_class)))
    IN  [name |-> str(occ_name),
         working_class |-> Some(class_code = <<"w">>),
         skilled |-> None]

\* the Occupation built from the cells of one row
Occupation(occ_name, working_class, skilled) ==
    LET class_code == Strip(lower(str(working_class)))
        skill_code == Strip(lower(str(skilled)))
    IN  [name |-> str(occ_name),
         working_class |-> Some(class_code = <<"w">>),
         skilled |-> IF skill_code = <<"y">> THEN Some(TRUE)
                     ELSE IF skill_code = <<"n">> THEN Some(FALSE)
                     ELSE None]

\* the rows a table keeps: those whose name holds a letter
Accepted(row) == HasLetter(str(row.Occupation))

\* the table is keyed by the name as the row spells it; a later row of the
\* same name replaces the earlier one
RECURSIVE parse_occupation_csv(_)
parse_occupation_csv(rows) ==
    IF rows = <<>> THEN EmptyDict
    ELSE LET before == parse_occupation_csv(SubSeq(rows, 1, Len(rows) - 1))
             row == rows[Len(rows)]
         IN  IF Accepted(row)
             THEN Put(before, str(row.Occupation),
                      Occupation(row.Occupation, row.class, row.skilled))
             ELSE before

\* the rows of the occupation table of a run
OccupationCsvSamples ==
    << [Occupation |-> <<"M", "a", "l", "o">>, class |-> <<"w">>,
        skilled |-> <<"y">>],
       [Occupation |-> <<"J", "a", "m", " ", "M", "o">>, class |-> <<"W", " ">>,
        skilled |-> <<"N">>],
       [Occupation |-> <<"O", "x">>, class |-> <<"m">>, skilled |-> NaN],
       [Occupation |-> <<"l", "a", "x">>, class |-> <<"w">>, skilled |-> <<"y">>],
       [Occupation |-> <<"1", "2">>, class |-> <<"w">>, skilled |-> <<"y">>],
       [Occupation |-> <<"M", "o", "l", "a">>, class |-> <<"m">>,
        skilled |-> <<"n">>],
       [Occupation |-> <<"M", "o", "l", "a">>, class |-> NaN,
        skilled |-> <<"y">>] >>

\* the occupation table handed to parse_trial_tag
occupation_dict == parse_occupation_csv(OccupationCsvSamples)

\* IDs listed by criminalCharge join groups are those of the tag samples; an
\* ID the record does not define in any of the three maps is an unknown
\* (dangling) reference.  A group names neither, the first, or both (in
\* either order) of the two IDs a and b of one kind
Namings(a, b) == { <<>>, <<a>>, <<a, b>>, <<b, a>> }

\* a group lists its defendant IDs, then its offence IDs, then its verdict IDs
OrderedJoins ==
    { t[1] \o t[2] \o t[3] :
        t \in { u \in Namings("d1", "d2") \X Namings("o1", "o2")
                                          \X Namings("v1", "v2") :
                   Len(u[1]) + Len(u[2]) + Len(u[3]) <= MaxGroupLen } }

\* groups that name an ID twice, that mix the kinds, and that name an ID
\* no tag of the samples carries
RepeatingJoins ==
    { <<"v1", "v1">>, <<"d1", "d1", "o1", "v1">>, <<"d1", "o1", "o1", "v1">> }
MixedJoins == { <<"v1", "o1", "d1">>, <<"o1", "v1", "d2", "d1">> }
DanglingJoins ==
    { <<"d1", "o1", "x9">>, <<"d1", "x9", "v1">>, <<"x9", "o1", "v1">>,
      <<"d1", "o1", "v1", "x9">> }

\* a group naming one defendant, one offence and one verdict, and one that
\* leaves the verdict out
PlainJoins == { <<"d1", "o1", "v1">>, <<"d1", "o1">> }

ChargeJoinSamples ==
    OrderedJoins \cup RepeatingJoins \cup MixedJoins \cup DanglingJoins

(***************************************************************************)
(* State after parse_xml has opened the document and listed its records.   *)
(***************************************************************************)
NoneResult == [kind |-> "None"]
NoExc == [type |-> "none", line |-> 0]
NoDate == [year |-> 0, month |-> 0, day |-> 0]

\* the frame of parse_trial_tag before its first statement
frame == <<i, trial_id, date, corrected, persons, defendants, victims,
           victim_joins, offences, verdicts, punish_joins, punishments,
           charge_join, charges>>

\* the frame of parse_trial_tag is gone once the call has ended
DropFrame ==
    /\ i' = 0
    /\ trial_id' = ""
    /\ date' = NoDate
    /\ corrected' = FALSE
    /\ persons' = EmptyDict
    /\ defendants' = EmptyDict
    /\ victims' = EmptyDict
    /\ victim_joins' = <<>>
    /\ offences' = EmptyDict
    /\ verdicts' = EmptyDict
    /\ punish_joins' = <<>>
    /\ punishments' = EmptyDict
    /\ charge_join' = <<>>
    /\ charges' = <<>>

\* no report is being made
NoReport ==
    /\ rpc = "none"
    /\ total = 0
    /\ skipped = 0
    /\ corrected_trials = 0
    /\ offence_summaries = EmptyDict
    /\ offence_full_infos = EmptyDict
    /\ sheets = EmptyDict
    /\ report_status = "none"

\* parse_xml called on one document: no folder is in hand
NoCorpus ==
    /\ data_xml_folder = [is_dir |-> FALSE, names |-> {}]
    /\ min_year = 0
    /\ max_year = 0
    /\ cpc = "none"
    /\ potential_xmls = <<>>
    /\ scanned = 0
    /\ victorian_files = <<>>
    /\ files = <<>>
    /\ tasks = <<>>
    /\ trials_list_per_date = <<>>
    /\ pool_exc = None
    /\ completion = <<>>
    /\ trials_per_date = EmptyDict
    /\ run_status = "none"

InitWith(documents) ==
    /\ NoCorpus
    /\ NoReport
    /\ trial_tags \in documents
    /\ pc = "trial_tags"
    /\ i = 0
    /\ trial_id = ""
    /\ date = NoDate
    /\ corrected = FALSE
    /\ persons = EmptyDict
    /\ defendants = EmptyDict
    /\ victims = EmptyDict
    /\ victim_joins = <<>>
    /\ offences = EmptyDict
    /\ verdicts = EmptyDict
    /\ punish_joins = <<>>
    /\ punishments = EmptyDict
    /\ charge_join = <<>>
    /\ charges = <<>>
    /\ result = NoneResult
    /\ exc = NoExc
    /\ trial_datas = <<>>
    /\ xml_status = "running"

Init == InitWith(DocumentSamples)

(***************************************************************************)
(* Size of the document scanned so far.                                    *)
(***************************************************************************)
Size(d) == Cardinality(DOMAIN d)

Entities ==
    Size(defendants) + Size(victims) + Size(offences) + Size(verdicts)
    + Size(punishments)

\* the next tag fits the record bound: it repeats an ID or adds an entry
Fits(d, id) == id \in DOMAIN d \/ Entities < MaxRecord

(***************************************************************************)
(* parse_trial_tag: header and entity extraction.                          *)
(***************************************************************************)
\* the character at position k of the value, "" past its end
At(value, k) == IF k \in DOMAIN value THEN value[k] ELSE ""
NonZero(c) == IsDigit(c) /\ c # "0"

\* %Y of strptime: four digits
YearLen(value) == IF \A k \in 1..4 : IsDigit(At(value, k)) THEN 4 ELSE 0

\* %m of strptime at position p: the length the alternative alt of
\* 1[0-2] | 0[1-9] | [1-9] takes, 0 when it does not match
MonthAlts == 1..3
MonthLen(value, p, alt) ==
    CASE alt = 1 -> IF At(value, p) = "1" /\ At(value, p + 1) \in {"0", "1", "2"}
                    THEN 2 ELSE 0
      [] alt = 2 -> IF At(value, p) = "0" /\ NonZero(At(value, p + 1))
                    THEN 2 ELSE 0
      [] alt = 3 -> IF NonZero(At(value, p)) THEN 1 ELSE 0

\* %d of strptime at position p: the length the alternative alt of
\* 3[0-1] | [1-2]\d | 0[1-9] | [1-9] | " "[1-9] takes, 0 when it does not match
DayAlts == 1..5
DayLen(value, p, alt) ==
    CASE alt = 1 -> IF At(value, p) = "3" /\ At(value, p + 1) \in {"0", "1"}
                    THEN 2 ELSE 0
      [] alt = 2 -> IF At(value, p) \in {"1", "2"} /\ IsDigit(At(value, p + 1))
                    THEN 2 ELSE 0
      [] alt = 3 -> IF At(value, p) = "0" /\ NonZero(At(value, p + 1))
                    THEN 2 ELSE 0
      [] alt = 4 -> IF NonZero(At(value, p)) THEN 1 ELSE 0
      [] alt = 5 -> IF At(value, p) = " " /\ NonZero(At(value, p + 1))
                    THEN 2 ELSE 0

\* the ways the format matches a prefix of the value: the alternatives taken
\* for the month and for the day
StrptimeMatches(value) ==
    { m \in MonthAlts \X DayAlts :
        /\ YearLen(value) = 4
        /\ MonthLen(value, 5, m[1]) > 0
        /\ DayLen(value, 5 + MonthLen(value, 5, m[1]), m[2]) > 0 }

\* the match the regular expression finds: the first alternative of the month
\* that leaves a day to match, and the first alternative of the day after it
StrptimeMatch(value) ==
    LET first == CHOOSE m \in StrptimeMatches(value) :
                     \A n \in StrptimeMatches(value) :
                         m[1] < n[1] \/ (m[1] = n[1] /\ m[2] <= n[2])
        month_end == 4 + MonthLen(value, 5, first[1])
    IN  [month_end |-> month_end,
         day_end |-> month_end + DayLen(value, month_end + 1, first[2])]

\* datetime.strptime(value, "%Y%m%d").date() of a value the format matches
ParseDate(value) ==
    LET found == StrptimeMatch(value)
    IN  [year  |-> DecimalValue(SubSeq(value, 1, 4)),
         month |-> DecimalValue(SubSeq(value, 5, found.month_end)),
         day   |-> DecimalValue(Strip(SubSeq(value, found.month_end + 1,
                                             found.day_end)))]

IsLeap(y) == y % 4 = 0 /\ (y % 100 # 0 \/ y % 400 = 0)
DaysIn(y, m) ==
    IF m = 2 THEN (IF IsLeap(y) THEN 29 ELSE 28)
    ELSE IF m \in {4, 6, 9, 11} THEN 30 ELSE 31

\* strptime accepts the value: the format matches at its start, the match
\* leaves no character unconverted, the year is from 1 and the day is one of
\* the month
IsDateValue(value) ==
    /\ StrptimeMatches(value) # {}
    /\ StrptimeMatch(value).day_end = Len(value)
    /\ LET d == ParseDate(value)
       IN  /\ d.year >= 1
           /\ d.day <= DaysIn(d.year, d.month)

\* the statement of the given line raises an exception of the given type
Raise(type, line) ==
    /\ pc' = "raised"
    /\ exc' = [type |-> type, line |-> line]

\* the record the loop of parse_xml is at
trial_tag == trial_tags[Len(trial_datas) + 1]

BeginTrial ==
    /\ pc = "trial_tags"
    /\ Len(trial_datas) < Len(trial_tags)
    /\ IF ~Has(trial_tag, "date")
       THEN /\ Raise("TypeError", 102)
            /\ UNCHANGED <<date, trial_id, corrected, persons, defendants, victims, i>>
       ELSE IF ~IsDateValue(trial_tag.date)
       THEN /\ Raise("ValueError", 102)
            /\ UNCHANGED <<date, trial_id, corrected, persons, defendants, victims, i>>
       ELSE IF ~Has(trial_tag, "id")
       THEN /\ Raise("KeyError", 105)
            /\ date' = ParseDate(trial_tag.date)
            /\ UNCHANGED <<trial_id, corrected, persons, defendants, victims, i>>
       ELSE /\ date' = ParseDate(trial_tag.date)
            /\ trial_id' = trial_tag.id
            /\ corrected' = FALSE
            /\ persons' = EmptyDict
            /\ defendants' = EmptyDict
            /\ victims' = EmptyDict
            /\ i' = 0
            /\ pc' = "defendant_tags"
            /\ exc' = exc
    /\ UNCHANGED <<corpus, report, trial_tags, victim_joins, offences, verdicts, punish_joins,
                   punishments, charge_join, charges, result, trial_datas, xml_status>>

\* an age parser that takes an unparsable value for zero
ParseAge_Zero(age_tag) ==
    IF age_tag = None THEN None
    ELSE IF IsIntLiteral(age_tag[1]) THEN Some(IntValue(age_tag[1]))
    ELSE Some(0)

\* int(age_tag["value"]) if age_tag else None, None on ValueError
ParseAge(age_tag) ==
    IF age_tag = None THEN None
    ELSE IF IsIntLiteral(age_tag[1]) THEN Some(IntValue(age_tag[1]))
    ELSE None

\* the occupation field holds a string or an Occupation: the string s is the
\* record [string |-> s], which is no Occupation and equal to none
String(s) == [string |-> s]
IsOccupation(x) == Has(x, "name")

Classify(occupation_tag) ==
    IF occupation_tag = None THEN None
    ELSE LET occupation == normalize_text_titlecase(occupation_tag[1])
         IN  IF occupation \in DOMAIN occupation_dict
             THEN Some(occupation_dict[occupation])
             ELSE Some(String(occupation))

NewPerson(p) ==
    [id |-> p.id,
     name |-> normalize_text_titlecase(p.text),
     gender |-> IF p.gender = None THEN None
                ELSE Some(normalize_text_titlecase(p.gender[1])),
     age |-> ParseAge(p.age),
     occupation |-> Classify(p.occupation)]

\* a duplicate test that rejects every repeated ID
Conflicts_AnyRepeat(d, id, new) == id \in DOMAIN d

\* the duplicate-ID test shared by the four extractors
Conflicts(d, id, new) == id \in DOMAIN d /\ new # d[id]

ExtractPerson(p) ==
    /\ \/ pc = "defendant_tags"
       \/ pc = "victim_tags" /\ p.type = "victimName"
    /\ i < MaxScan
    /\ IF ~Has(p, "id")
       THEN /\ Raise("KeyError", 121)
            /\ UNCHANGED <<i, persons, defendants, victims, result>>
       ELSE /\ Fits(persons, p.id)
            /\ exc' = exc
            /\ LET new_person == NewPerson(p)
               IN  IF Conflicts(persons, p.id, new_person)
                   THEN /\ result' = NoneResult
                        /\ pc' = "ret_person"
                        /\ UNCHANGED <<i, persons, defendants, victims>>
                   ELSE /\ persons' = Put(persons, p.id, new_person)
                        /\ IF p.type = "defendantName"
                           THEN /\ defendants' = Put(defendants, p.id, new_person)
                                /\ victims' = victims
                                /\ pc' = "defendant_tags"
                           ELSE /\ victims' = Put(victims, p.id, new_person)
                                /\ defendants' = defendants
                                /\ pc' = "victim_tags"
                        /\ i' = i + 1
                        /\ result' = result
    /\ UNCHANGED <<corpus, report, trial_tags, trial_id, date, corrected, victim_joins, offences, verdicts,
                   punish_joins, punishments, charge_join, charges, trial_datas,
                   xml_status>>

\* [d[x] for x in join if x in d]
Resolve(join, d) ==
    LET hits == SelectSeq(join, LAMBDA x : x \in DOMAIN d)
    IN  [k \in DOMAIN hits |-> d[hits[k]]]

\* the related persons of entity id: for every join group naming id, in
\* document order, the group's IDs found in the person map d
RECURSIVE Related(_, _, _)
Related(joins, id, d) ==
    IF joins = <<>> THEN <<>>
    ELSE (IF id \in Range(Head(joins)) THEN Resolve(Head(joins), d) ELSE <<>>)
         \o Related(Tail(joins), id, d)

\* [t["targets"].split() for t in join_tags]
Targets(join_tags) == [k \in DOMAIN join_tags |-> join_tags[k].targets]

HasTargets(join_tags) == \A k \in DOMAIN join_tags : Has(join_tags[k], "targets")

BeginOffences(victim_join_tags) ==
    /\ pc \in {"defendant_tags", "victim_tags"}
    /\ IF ~HasTargets(victim_join_tags)
       THEN /\ Raise("KeyError", 159)
            /\ UNCHANGED <<victim_joins, offences, i>>
       ELSE /\ victim_joins' = Targets(victim_join_tags)
            /\ offences' = EmptyDict
            /\ i' = 0
            /\ pc' = "offences"
            /\ exc' = exc
    /\ UNCHANGED <<corpus, report, trial_tags, trial_id, date, corrected, persons, defendants, victims,
                   verdicts, punish_joins, punishments, charge_join, charges, result,
                   trial_datas, xml_status>>

NewOffence(o) ==
    [id |-> o.id,
     category |-> o.category,
     subcategory |-> o.subcategory,
     description |-> normalize_text_titlecase(o.text),
     victims |-> Related(victim_joins, o.id, victims)]

ExtractOffence(o) ==
    /\ pc = "offences"
    /\ i < MaxScan
    /\ IF ~Has(o, "id")
       THEN /\ Raise("KeyError", 162)
            /\ UNCHANGED <<i, offences, result>>
       ELSE IF ~Has(o, "category")
       THEN /\ Raise("TypeError", 165)
            /\ UNCHANGED <<i, offences, result>>
       ELSE /\ Fits(offences, o.id)
            /\ exc' = exc
            /\ LET new_offence == NewOffence(o)
               IN  IF Conflicts(offences, o.id, new_offence)
                   THEN /\ result' = NoneResult
                        /\ pc' = "ret_offence"
                        /\ UNCHANGED <<i, offences>>
                   ELSE /\ offences' = Put(offences, o.id, new_offence)
                        /\ i' = i + 1
                        /\ UNCHANGED <<pc, result>>
    /\ UNCHANGED <<corpus, report, trial_tags, trial_id, date, corrected, persons, defendants, victims,
                   victim_joins, verdicts, punish_joins, punishments, charge_join, charges,
                   trial_datas, xml_status>>

BeginVerdicts ==
    /\ pc = "offences"
    /\ verdicts' = EmptyDict
    /\ i' = 0
    /\ pc' = "verdicts"
    /\ UNCHANGED <<corpus, report, trial_tags, trial_id, date, corrected, persons, defendants, victims,
                   victim_joins, offences, punish_joins, punishments, charge_join, charges,
                   result, exc, trial_datas, xml_status>>

NewVerdict(v) ==
    [id |-> v.id, category |-> v.category, subcategory |-> v.subcategory]

ExtractVerdict(v) ==
    /\ pc = "verdicts"
    /\ i < MaxScan
    /\ IF ~Has(v, "id")
       THEN /\ Raise("KeyError", 214)
            /\ UNCHANGED <<i, verdicts, result>>
       ELSE IF ~Has(v, "category")
       THEN /\ Raise("TypeError", 217)
            /\ UNCHANGED <<i, verdicts, result>>
       ELSE /\ Fits(verdicts, v.id)
            /\ exc' = exc
            /\ LET new_verdict == NewVerdict(v)
               IN  IF Conflicts(verdicts, v.id, new_verdict)
                   THEN /\ result' = NoneResult
                        /\ pc' = "ret_verdict"
                        /\ UNCHANGED <<i, verdicts>>
                   ELSE /\ verdicts' = Put(verdicts, v.id, new_verdict)
                        /\ i' = i + 1
                        /\ UNCHANGED <<pc, result>>
    /\ UNCHANGED <<corpus, report, trial_tags, trial_id, date, corrected, persons, defendants, victims,
                   victim_joins, offences, punish_joins, punishments, charge_join, charges,
                   trial_datas, xml_status>>

BeginPunishments(punish_join_tags) ==
    /\ pc = "verdicts"
    /\ IF ~HasTargets(punish_join_tags)
       THEN /\ Raise("KeyError", 249)
            /\ UNCHANGED <<punish_joins, punishments, i>>
       ELSE /\ punish_joins' = Targets(punish_join_tags)
            /\ punishments' = EmptyDict
            /\ i' = 0
            /\ pc' = "punishments"
            /\ exc' = exc
    /\ UNCHANGED <<corpus, report, trial_tags, trial_id, date, corrected, persons, defendants, victims,
                   victim_joins, offences, verdicts, charge_join, charges, result,
                   trial_datas, xml_status>>

NewPunishment(p) ==
    [id |-> p.id,
     category |-> p.category,
     subcategory |-> p.subcategory,
     description |-> normalize_text_titlecase(p.text),
     defendants |-> Related(punish_joins, p.id, persons)]

ExtractPunishment(p) ==
    /\ pc = "punishments"
    /\ i < MaxScan
    /\ IF ~Has(p, "id")
       THEN /\ Raise("KeyError", 252)
            /\ UNCHANGED <<i, punishments, result>>
       ELSE IF ~Has(p, "category")
       THEN /\ Raise("TypeError", 255)
            /\ UNCHANGED <<i, punishments, result>>
       ELSE /\ Fits(punishments, p.id)
            /\ exc' = exc
            /\ LET new_punishment == NewPunishment(p)
               IN  IF Conflicts(punishments, p.id, new_punishment)
                   THEN /\ result' = NoneResult
                        /\ pc' = "ret_punishment"
                        /\ UNCHANGED <<i, punishments>>
                   ELSE /\ punishments' = Put(punishments, p.id, new_punishment)
                        /\ i' = i + 1
                        /\ UNCHANGED <<pc, result>>
    /\ UNCHANGED <<corpus, report, trial_tags, trial_id, date, corrected, persons, defendants, victims,
                   victim_joins, offences, verdicts, punish_joins, charge_join, charges,
                   trial_datas, xml_status>>

(***************************************************************************)
(* parse_trial_tag: the charge reconciler.                                 *)
(***************************************************************************)
\* has_targets: every criminalCharge join element of the record carries a
\* targets attribute; line 300 reads them all before the loop starts
BeginCharges(has_targets) ==
    /\ pc = "punishments"
    /\ IF ~has_targets
       THEN /\ Raise("KeyError", 300)
            /\ UNCHANGED <<charges, charge_join, i>>
       ELSE /\ charges' = <<>>
            /\ charge_join' = <<>>
            /\ i' = 0
            /\ pc' = "charges"
            /\ exc' = exc
    /\ UNCHANGED <<corpus, report, trial_tags, trial_id, date, corrected, persons, defendants, victims,
                   victim_joins, offences, verdicts, punish_joins, punishments,
                   result, trial_datas, xml_status>>

\* positions of the charge loop from which its next iteration starts
ChargeLoop ==
    {"charges", "skip_verdict", "skip_defendant", "skip_offence", "appended"}

\* next(iter(d.values())) of a dict with one entry
OnlyValue(d) == d[CHOOSE k \in DOMAIN d : TRUE]

\* a fallback that takes an entity although the record holds several
CanCorrect_Several(resolved, d) == Len(resolved) = 0 /\ Size(d) >= 1

\* the correction fallback: the record's only entity of the kind stands in
\* for a group that names none
CanCorrect(resolved, d) == Len(resolved) = 0 /\ Size(d) = 1

\* a loop body whose correction branches never substitute
Corrected_Never(resolved, d) == resolved

Corrected(resolved, d) ==
    IF CanCorrect(resolved, d) THEN <<OnlyValue(d)>> ELSE resolved

\* the three lists of a group as they stand after the correction branches
ChargeVerdicts(cj) == Corrected(Resolve(cj, verdicts), verdicts)
\* a defendant list cut down to the first resolved defendant
ChargeDefendants_First(cj) ==
    LET all == Corrected(Resolve(cj, defendants), defendants)
    IN  IF all = <<>> THEN <<>> ELSE <<all[1]>>

ChargeDefendants(cj) ==
    Corrected(Resolve(cj, defendants), defendants)
\* an offence list taken without the fallback of the only offence
ChargeOffences_NoFallback(cj) == Resolve(cj, offences)

ChargeOffences(cj) == Corrected(Resolve(cj, offences), offences)

\* a sanity sum that leaves the verdict out
SanityCount_NoVerdict(charge_verdicts, charge_defendants, charge_offences) ==
    Len(charge_defendants) + Len(charge_offences)

\* the left-hand side of the sanity assertion
SanityCount(charge_verdicts, charge_defendants, charge_offences) ==
    Len(charge_verdicts) + Len(charge_defendants) + Len(charge_offences)

NewCharge(charge_defendants, charge_offences, charge_verdicts) ==
    [defendant |-> charge_defendants,
     offence |-> charge_offences,
     verdict |-> charge_verdicts[1]]

\* the loop body with the assertion on the verdict count stripped
ChargeExit_NoAssert(cj) ==
    LET charge_verdicts == ChargeVerdicts(cj)
        charge_defendants == ChargeDefendants(cj)
        charge_offences == ChargeOffences(cj)
    IN  IF Len(charge_verdicts) = 0 THEN "skip_verdict"
        ELSE IF Len(charge_defendants) = 0 THEN "skip_defendant"
        ELSE IF Len(charge_offences) = 0 THEN "skip_offence"
        ELSE IF SanityCount(charge_verdicts, charge_defendants, charge_offences)
                # Len(cj)
             THEN "assert_count"
        ELSE "appended"

\* the loop body without the continue of the defendant branch
ChargeExit_NoContinue(cj) ==
    LET charge_verdicts == ChargeVerdicts(cj)
        charge_defendants == ChargeDefendants(cj)
        charge_offences == ChargeOffences(cj)
    IN  IF Len(charge_verdicts) = 0 THEN "skip_verdict"
        ELSE IF Len(charge_verdicts) # 1 THEN "assert_verdict"
        ELSE IF Len(charge_offences) = 0 THEN "skip_offence"
        ELSE IF SanityCount(charge_verdicts, charge_defendants, charge_offences)
                # Len(cj)
             THEN "assert_count"
        ELSE "appended"

\* where one iteration of the charge loop ends for the group
ChargeExit(cj) ==
    LET charge_verdicts == ChargeVerdicts(cj)
        charge_defendants == ChargeDefendants(cj)
        charge_offences == ChargeOffences(cj)
    IN  IF Len(charge_verdicts) = 0 THEN "skip_verdict"
        ELSE IF Len(charge_verdicts) # 1 THEN "assert_verdict"
        ELSE IF Len(charge_defendants) = 0 THEN "skip_defendant"
        ELSE IF Len(charge_offences) = 0 THEN "skip_offence"
        ELSE IF SanityCount(charge_verdicts, charge_defendants, charge_offences)
                # Len(cj)
             THEN "assert_count"
        ELSE "appended"

\* a flag raised only by the groups that yield a Charge
CorrectionMade_Appended(cj, exit) ==
    /\ exit = "appended"
    /\ \/ CanCorrect(Resolve(cj, verdicts), verdicts)
       \/ CanCorrect(Resolve(cj, defendants), defendants)
       \/ CanCorrect(Resolve(cj, offences), offences)

\* the correction branches an iteration has run when it ends at exit
CorrectionMade(cj, exit) ==
    \/ CanCorrect(Resolve(cj, verdicts), verdicts)
    \/ /\ exit \notin {"skip_verdict", "assert_verdict"}
       /\ CanCorrect(Resolve(cj, defendants), defendants)
    \/ /\ exit \in {"assert_count", "appended"}
       /\ CanCorrect(Resolve(cj, offences), offences)

ReconcileCharge(cj) ==
    /\ pc \in ChargeLoop
    /\ Entities + i < MaxRecord
    /\ charge_join' = cj
    /\ LET exit == ChargeExit(cj)
       IN  /\ pc' = exit
           /\ corrected' = (corrected \/ CorrectionMade(cj, exit))
           /\ charges' = IF exit = "appended"
                         THEN Append(charges,
                                     NewCharge(ChargeDefendants(cj),
                                               ChargeOffences(cj),
                                               ChargeVerdicts(cj)))
                         ELSE charges
           /\ exc' = IF exit = "assert_verdict"
                     THEN [type |-> "AssertionError", line |-> 316]
                     ELSE IF exit = "assert_count"
                     THEN [type |-> "AssertionError", line |-> 342]
                     ELSE exc
    /\ i' = i + 1
    /\ UNCHANGED <<corpus, report, trial_tags, trial_id, date, persons, defendants, victims, victim_joins,
                   offences, verdicts, punish_joins, punishments, result,
                   trial_datas, xml_status>>

\* a TrialData that leaves the victims map empty
NewTrialData_NoVictims ==
    [kind |-> "TrialData",
     date |-> date,
     id |-> trial_id,
     corrected |-> corrected,
     defendants |-> defendants,
     victims |-> EmptyDict,
     offences |-> offences,
     verdicts |-> verdicts,
     punishments |-> punishments,
     charges |-> charges]

NewTrialData ==
    [kind |-> "TrialData",
     date |-> date,
     id |-> trial_id,
     corrected |-> corrected,
     defendants |-> defendants,
     victims |-> victims,
     offences |-> offences,
     verdicts |-> verdicts,
     punishments |-> punishments,
     charges |-> charges]

\* a return that skips the test for an empty charge list
ReturnTrial_Unchecked ==
    /\ pc \in ChargeLoop
    /\ result' = NewTrialData
    /\ pc' = "ret_trial"
    /\ UNCHANGED <<corpus, report, trial_tags, frame, exc, trial_datas, xml_status>>

ReturnTrial ==
    /\ pc \in ChargeLoop
    /\ IF Len(charges) = 0
       THEN /\ result' = NoneResult
            /\ pc' = "ret_nocharges"
       ELSE /\ result' = NewTrialData
            /\ pc' = "ret_trial"
    /\ UNCHANGED <<corpus, report, trial_tags, frame, exc, trial_datas, xml_status>>

(***************************************************************************)
(* parse_xml: the loop over the trial records of the document.             *)
(***************************************************************************)
Returns ==
    {"ret_person", "ret_offence", "ret_verdict", "ret_punishment",
     "ret_nocharges", "ret_trial"}

Raises == {"raised", "assert_verdict", "assert_count"}

\* the except clause of parse_xml
Caught == {"ValueError", "KeyError", "AssertionError"}

\* a loop body that raises on a null record instead of appending it
ParseXmlAppend_Strict ==
    /\ pc \in Returns
    /\ IF result = NoneResult
       THEN /\ xml_status' = "RuntimeError"
            /\ pc' = "done"
            /\ trial_datas' = trial_datas
       ELSE /\ trial_datas' = Append(trial_datas, result)
            /\ pc' = "trial_tags"
            /\ xml_status' = xml_status
    /\ result' = NoneResult
    /\ DropFrame
    /\ UNCHANGED <<corpus, report, trial_tags, exc>>

ParseXmlAppend ==
    /\ pc \in Returns
    /\ trial_datas' = Append(trial_datas, result)
    /\ pc' = "trial_tags"
    /\ result' = NoneResult
    /\ DropFrame
    /\ UNCHANGED <<corpus, report, trial_tags, exc, xml_status>>

ParseXmlExcept ==
    /\ pc \in Raises
    /\ xml_status' = IF exc.type \in Caught THEN "RuntimeError" ELSE exc.type
    /\ pc' = "done"
    /\ DropFrame
    /\ UNCHANGED <<corpus, report, trial_tags, result, exc, trial_datas>>

ParseXmlReturn ==
    /\ pc = "trial_tags"
    /\ Len(trial_datas) = Len(trial_tags)
    /\ xml_status' = "returned"
    /\ pc' = "done"
    /\ UNCHANGED <<corpus, report, trial_tags, frame, result, exc, trial_datas>>

\* one step of parse_xml on a document whose tags and join groups are drawn
\* from the given samples
Step(DT, VT, VJ, OT, VeT, PJ, PT, CT, CJ) ==
    \/ BeginTrial
    \/ \E p \in DT \cup VT : ExtractPerson(p)
    \/ \E vj \in VJ : BeginOffences(vj)
    \/ \E o \in OT : ExtractOffence(o)
    \/ BeginVerdicts
    \/ \E v \in VeT : ExtractVerdict(v)
    \/ \E pj \in PJ : BeginPunishments(pj)
    \/ \E p \in PT : ExtractPunishment(p)
    \/ \E has_targets \in CT : BeginCharges(has_targets)
    \/ \E cj \in CJ : ReconcileCharge(cj)
    \/ ReturnTrial
    \/ ParseXmlAppend
    \/ ParseXmlExcept
    \/ ParseXmlReturn

\* documents whose tags repeat IDs with equal and with other field values,
\* and whose groups are the plain ones
Next ==
    Step(DefendantTagSamples \cup DefendantTagVariants, VictimTagSamples,
         VictimJoinSamples, OffenceTagSamples \cup OffenceTagVariants,
         VerdictTagSamples \cup VerdictTagVariants, PunishJoinSamples,
         PunishmentTagSamples \cup PunishmentTagVariants, {TRUE}, PlainJoins)

Spec == Init /\ [][Next]_vars

\* documents of plain tags whose groups range over all the samples
NextCharges ==
    Step(DefendantTagSamples, VictimTagSamples, VictimJoinSamples,
         OffenceTagSamples, VerdictTagSamples, PunishJoinSamples,
         PunishmentTagSamples, {TRUE}, ChargeJoinSamples)

SpecCharges == Init /\ [][NextCharges]_vars

\* documents of plain tags whose offenceVictim and defendantPunishment join
\* elements range over all the samples
NextJoins ==
    Step(DefendantTagSamples, VictimTagSamples \cup VictimTagVariants,
         VictimJoinSamples \cup VictimJoinVariants, OffenceTagSamples,
         {v \in VerdictTagSamples : v.id = "v1"},
         PunishJoinSamples \cup PunishJoinVariants,
         PunishmentTagSamples \cup PunishmentTagMore, {TRUE}, PlainJoins)

SpecJoins == Init /\ [][NextJoins]_vars

\* documents whose defendants carry the detailed age and occupation values
NextPersons ==
    Step(DefendantTagSamples \cup DefendantTagDetails, VictimTagSamples,
         VictimJoinSamples, OffenceTagSamples, VerdictTagSamples,
         PunishJoinSamples, PunishmentTagSamples, {TRUE}, PlainJoins)

SpecPersons == Init /\ [][NextPersons]_vars

\* documents of several records whose tags and join elements may lack the
\* attributes and sub-elements the extractor subscripts
InitFile == InitWith(FileSamples)

NextFile ==
    Step({p \in DefendantTagSamples : p.id = "d1"} \cup DefendantTagMalformed,
         {}, VictimJoinSamples \cup VictimJoinMalformed,
         {o \in OffenceTagSamples : o.id = "o1"} \cup OffenceTagMalformed,
         {v \in VerdictTagSamples : v.id = "v1"} \cup VerdictTagMalformed,
         PunishJoinSamples \cup PunishJoinMalformed,
         PunishmentTagSamples \cup PunishmentTagMalformed, BOOLEAN,
         {<<"d1", "o1", "v1">>})

SpecFile == InitFile /\ [][NextFile]_vars

(***************************************************************************)
(* find_victorian_files.  A file name is a sequence of characters.         *)
(***************************************************************************)
\* 1845_sessions.xml: the spec's example of a selected file
Name1845Sessions ==
    <<"1", "8", "4", "5", "_", "s", "e", "s", "s", "i", "o", "n", "s", ".", "x", "m", "l">>
\* 1820_sessions.xml: a year before the range [1833, 1913]
Name1820Sessions ==
    <<"1", "8", "2", "0", "_", "s", "e", "s", "s", "i", "o", "n", "s", ".", "x", "m", "l">>
\* sessions.xml: no leading year
NameSessions ==
    <<"s", "e", "s", "s", "i", "o", "n", "s", ".", "x", "m", "l">>
\* 1845.xml: nothing between the year and .xml
Name1845 ==
    <<"1", "8", "4", "5", ".", "x", "m", "l">>
\* 1833a.xml: the first year of the range
Name1833a ==
    <<"1", "8", "3", "3", "a", ".", "x", "m", "l">>
\* 1913a.xml: the last year of the range
Name1913a ==
    <<"1", "9", "1", "3", "a", ".", "x", "m", "l">>
\* 1914a.xml: the year after the range
Name1914a ==
    <<"1", "9", "1", "4", "a", ".", "x", "m", "l">>
\* 18455.xml: five digits: the year is 1845
Name18455 ==
    <<"1", "8", "4", "5", "5", ".", "x", "m", "l">>
\* 1845-s.xml: a character that is no word character
Name1845Dash ==
    <<"1", "8", "4", "5", "-", "s", ".", "x", "m", "l">>
\* 1845a.txt: no .xml file
Name1845Txt ==
    <<"1", "8", "4", "5", "a", ".", "t", "x", "t">>
\* 1845a.xmlx.xml: .xml inside the name as well as at its end
Name1845XmlXml ==
    <<"1", "8", "4", "5", "a", ".", "x", "m", "l", "x", ".", "x", "m", "l">>

NameSamples ==
    { Name1845Sessions,
      Name1820Sessions,
      NameSessions,
      Name1845,
      Name1833a,
      Name1913a,
      Name1914a,
      Name18455,
      Name1845Dash,
      Name1845Txt,
      Name1845XmlXml }

\* the characters of the sample names, in code point order
CodePoints ==
    <<"-", ".", "0", "1", "2", "3", "4", "5", "6", "7", "8", "9", "_",
      "a", "e", "i", "l", "m", "n", "o", "s", "t", "x">>
Rank(c) == CHOOSE k \in DOMAIN CodePoints : CodePoints[k] = c

\* \w: a letter, a digit or the underscore
Letters == {"a", "e", "i", "l", "m", "n", "o", "s", "t", "x"}
IsWord(c) == c \in Letters \/ IsDigit(c) \/ c = "_"

\* the longest run of word characters of name from position k on
RECURSIVE WordRun(_, _)
WordRun(name, k) ==
    IF k <= Len(name) /\ IsWord(name[k]) THEN 1 + WordRun(name, k + 1) ELSE 0

\* name holds the characters of part from position k on
HasAt(name, k, part) ==
    /\ k + Len(part) - 1 <= Len(name)
    /\ SubSeq(name, k, k + Len(part) - 1) = part

DotXml == <<".", "x", "m", "l">>

\* glob "*.xml": the name ends in .xml and does not begin with a dot
GlobMatch(name) ==
    /\ Len(name) >= Len(DotXml)
    /\ HasAt(name, Len(name) - Len(DotXml) + 1, DotXml)
    /\ name[1] # "."

\* xml_year_re.match(name).group(1), None without a match: four digits, the
\* longest run of one or more word characters, then .xml; a shorter run
\* cannot match since a word character would stand where the dot must
xml_year_re_match(name) ==
    IF Len(name) >= 4 /\ \A k \in 1..4 : IsDigit(name[k])
    THEN LET run == WordRun(name, 5)
         IN  IF run >= 1 /\ HasAt(name, 5 + run, DotXml)
             THEN Some(SubSeq(name, 1, 4))
             ELSE None
    ELSE None

\* a year test that leaves the two ends of the range out
InRange_Exclusive(year) == year > min_year /\ year < max_year

InRange(year) == year >= min_year /\ year <= max_year

\* the body of the loop over potential_xmls appends the name
IsVictorian(name) ==
    LET m == xml_year_re_match(name)
    IN  m # None /\ InRange(DecimalValue(m[1]))

\* str order of two names
RECURSIVE LexLess(_, _)
LexLess(a, b) ==
    IF a = <<>> THEN b # <<>>
    ELSE IF b = <<>> THEN FALSE
    ELSE IF Head(a) = Head(b) THEN LexLess(Tail(a), Tail(b))
    ELSE Rank(Head(a)) < Rank(Head(b))

\* sorted(list), by insertion
RECURSIVE Insert(_, _)
Insert(x, list) ==
    IF list = <<>> THEN <<x>>
    ELSE IF LexLess(Head(list), x) THEN <<Head(list)>> \o Insert(x, Tail(list))
    ELSE <<x>> \o list

RECURSIVE sorted(_)
sorted(list) ==
    IF list = <<>> THEN <<>> ELSE Insert(Head(list), sorted(Tail(list)))

\* the orders in which glob may list the names of a set
Orders(S) ==
    { f \in [1..Cardinality(S) -> S] :
        \A a, b \in 1..Cardinality(S) : f[a] = f[b] => a = b }

(***************************************************************************)
(* The files of a folder.  What parse_trial_tag makes of each record of a  *)
(* file is given with the file: a TrialData (of which the collation reads  *)
(* the date), None, or the exception it raises.                            *)
(***************************************************************************)
TrialOf(id, day) ==
    [kind |-> "TrialData", id |-> id,
     date |-> [year |-> 1845, month |-> 1, day |-> day]]

RaisesIn(type) == [kind |-> "raise", type |-> type]

FileContent(name) ==
    CASE name = Name1845Sessions ->
            <<NoneResult, TrialOf("t1", 6), TrialOf("t2", 7)>>
      [] name = Name1833a -> <<TrialOf("t3", 6)>>
      [] name = Name1913a -> <<NoneResult, NoneResult>>
      [] name = Name18455 -> <<TrialOf("t4", 8), RaisesIn("AssertionError")>>
      [] name = Name1845XmlXml -> <<RaisesIn("TypeError")>>
      [] name = Name1820Sessions -> <<TrialOf("t5", 9), NoneResult>>
      [] OTHER -> <<>>

\* parse_xml on the records of a file, done the results appended so far: the
\* list returned, or the error raised at the first record that raises
RECURSIVE ParseXmlLoop(_, _)
ParseXmlLoop(records, done) ==
    IF records = <<>> THEN [kind |-> "list", trials |-> done]
    ELSE IF Head(records).kind = "raise"
    THEN [kind |-> "raise",
          type |-> IF Head(records).type \in Caught
                   THEN "RuntimeError"
                   ELSE Head(records).type]
    ELSE ParseXmlLoop(Tail(records), Append(done, Head(records)))

ParseXmlResult(xml_path) == ParseXmlLoop(FileContent(xml_path), <<>>)

\* folders of up to MaxFiles entries, and one path that is no directory
FolderSamples ==
    { [is_dir |-> TRUE, names |-> S] :
        S \in {T \in SUBSET NameSamples : Cardinality(T) <= MaxFiles} }
    \cup { [is_dir |-> FALSE, names |-> {}] }

\* the year range of the spec's example, and one around 1820
YearRangeSamples == { <<1833, 1913>>, <<1820, 1845>> }

InitCorpus ==
    /\ NoReport
    /\ data_xml_folder \in FolderSamples
    /\ \E range \in YearRangeSamples :
          min_year = range[1] /\ max_year = range[2]
    /\ cpc = "isdir"
    /\ potential_xmls = <<>>
    /\ scanned = 0
    /\ victorian_files = <<>>
    /\ files = <<>>
    /\ tasks = <<>>
    /\ trials_list_per_date = <<>>
    /\ pool_exc = None
    /\ completion = <<>>
    /\ trials_per_date = EmptyDict
    /\ run_status = "running"
    \* no document is in hand in this process: the workers parse
    /\ trial_tags = <<>>
    /\ pc = "none"
    /\ i = 0
    /\ trial_id = ""
    /\ date = NoDate
    /\ corrected = FALSE
    /\ persons = EmptyDict
    /\ defendants = EmptyDict
    /\ victims = EmptyDict
    /\ victim_joins = <<>>
    /\ offences = EmptyDict
    /\ verdicts = EmptyDict
    /\ punish_joins = <<>>
    /\ punishments = EmptyDict
    /\ charge_join = <<>>
    /\ charges = <<>>
    /\ result = NoneResult
    /\ exc = NoExc
    /\ trial_datas = <<>>
    /\ xml_status = "none"

(***************************************************************************)
(* process_data_xml_folder_to_trials_per_date.                             *)
(***************************************************************************)
\* lines 386-387, and the glob of find_victorian_files, which lists the
\* matching entries in an order of its own
EnterFolder ==
    /\ cpc = "isdir"
    /\ IF ~data_xml_folder.is_dir
       THEN /\ run_status' = "RuntimeError"
            /\ cpc' = "done"
            /\ UNCHANGED potential_xmls
       ELSE /\ potential_xmls'
                 \in Orders({n \in data_xml_folder.names : GlobMatch(n)})
            /\ cpc' = "filter"
            /\ UNCHANGED run_status
    /\ UNCHANGED <<parse, report, completion, data_xml_folder, min_year, max_year, scanned,
                   victorian_files, files, tasks, trials_list_per_date, pool_exc,
                   trials_per_date>>

\* one iteration of the loop over potential_xmls
FilterFile ==
    /\ cpc = "filter"
    /\ scanned < Len(potential_xmls)
    /\ LET xml == potential_xmls[scanned + 1]
       IN  victorian_files' = IF IsVictorian(xml)
                              THEN Append(victorian_files, xml)
                              ELSE victorian_files
    /\ scanned' = scanned + 1
    /\ UNCHANGED <<parse, report, completion, data_xml_folder, min_year, max_year, cpc, potential_xmls,
                   files, tasks, trials_list_per_date, pool_exc, trials_per_date,
                   run_status>>

Pending == [kind |-> "pending"]

\* find_victorian_files returns, and Pool.map queues one task per file
ReturnFiles ==
    /\ cpc = "filter"
    /\ scanned = Len(potential_xmls)
    /\ files' = sorted(victorian_files)
    /\ tasks' = [k \in DOMAIN victorian_files |-> "queued"]
    /\ trials_list_per_date' = [k \in DOMAIN victorian_files |-> Pending]
    /\ cpc' = "pool"
    /\ UNCHANGED <<parse, report, completion, data_xml_folder, min_year, max_year, potential_xmls,
                   scanned, victorian_files, pool_exc, trials_per_date, run_status>>

\* tasks a worker is running
Running == {k \in DOMAIN tasks : tasks[k] = "running"}

\* a free worker takes the next task of the queue
StartTask ==
    /\ cpc = "pool"
    /\ Cardinality(Running) < PoolSize
    /\ \E k \in DOMAIN tasks :
          /\ tasks[k] = "queued"
          /\ \A j \in 1..(k - 1) : tasks[j] # "queued"
          /\ tasks' = [tasks EXCEPT ![k] = "running"]
    /\ UNCHANGED <<parse, report, completion, data_xml_folder, min_year, max_year, cpc, potential_xmls,
                   scanned, victorian_files, files, trials_list_per_date, pool_exc,
                   trials_per_date, run_status>>

\* a map that stores each result in the first free slot, in completion order
Store_Unordered(slots, k, out) ==
    LET free == CHOOSE j \in DOMAIN slots :
                    /\ slots[j] = Pending
                    /\ \A h \in 1..(j - 1) : slots[h] # Pending
    IN  [slots EXCEPT ![free] = out]

\* the result of task k goes to slot k
Store(slots, k, out) == [slots EXCEPT ![k] = out]

\* the worker of task k ends parse_xml; of the exceptions the pool keeps the
\* first to arrive
FinishTask(k) ==
    /\ cpc = "pool"
    /\ k \in DOMAIN tasks
    /\ tasks[k] = "running"
    /\ LET out == ParseXmlResult(files[k])
       IN  IF out.kind = "raise"
           THEN /\ tasks' = [tasks EXCEPT ![k] = "failed"]
                /\ pool_exc' = IF pool_exc = None
                               THEN Some([type |-> out.type, xml_path |-> files[k]])
                               ELSE pool_exc
                /\ UNCHANGED trials_list_per_date
           ELSE /\ tasks' = [tasks EXCEPT ![k] = "done"]
                /\ trials_list_per_date' = Store(trials_list_per_date, k, out)
                /\ UNCHANGED pool_exc
    /\ completion' = Append(completion, k)
    /\ UNCHANGED <<parse, report, data_xml_folder, min_year, max_year, cpc, potential_xmls,
                   scanned, victorian_files, files, trials_per_date, run_status>>

\* next(t.date for t in trials if t is not None), None on StopIteration
FirstDate(trials) ==
    LET found == SelectSeq(trials, LAMBDA t : t # NoneResult)
    IN  IF found = <<>> THEN None ELSE Some(found[1].date)

\* the dict comprehension of lines 398-401 over the lists still to come, d
\* the dict built so far: the dict, or the StopIteration of next()
RECURSIVE Collate(_, _)
Collate(lists, d) ==
    IF lists = <<>> THEN [kind |-> "dict", dict |-> d]
    ELSE IF FirstDate(Head(lists)) = None
    THEN [kind |-> "raise", type |-> "StopIteration"]
    ELSE Collate(Tail(lists), Put(d, FirstDate(Head(lists))[1], Head(lists)))

\* a map that returns the lists of the tasks that did not fail
MapOutcome_Partial(slots, first_exc) ==
    LET kept == SelectSeq(slots, LAMBDA out : out # Pending)
    IN  [kind |-> "list", lists |-> [k \in DOMAIN kept |-> kept[k].trials]]

\* what Pool.map gives once every task has ended: the exception kept, or the
\* lists in file order
MapOutcome(slots, first_exc) ==
    IF first_exc # None
    THEN [kind |-> "raise", type |-> first_exc[1].type]
    ELSE [kind |-> "list", lists |-> [k \in DOMAIN slots |-> slots[k].trials]]

\* Pool.map ends once no task is left, and the mapping is collated
ReturnTrialsPerDate ==
    /\ cpc = "pool"
    /\ \A k \in DOMAIN tasks : tasks[k] \in {"done", "failed"}
    /\ LET got == MapOutcome(trials_list_per_date, pool_exc)
       IN  IF got.kind = "raise"
           THEN /\ run_status' = got.type
                /\ UNCHANGED trials_per_date
           ELSE LET made == Collate(got.lists, EmptyDict)
                IN  IF made.kind = "raise"
                    THEN /\ run_status' = made.type
                         /\ UNCHANGED trials_per_date
                    ELSE /\ run_status' = "returned"
                         /\ trials_per_date' = made.dict
    /\ cpc' = "done"
    /\ UNCHANGED <<parse, report, completion, data_xml_folder, min_year, max_year, potential_xmls,
                   scanned, victorian_files, files, tasks, trials_list_per_date,
                   pool_exc>>

NextCorpus ==
    \/ EnterFolder
    \/ FilterFile
    \/ ReturnFiles
    \/ StartTask
    \/ \E k \in 1..MaxFiles : FinishTask(k)
    \/ ReturnTrialsPerDate

SpecCorpus == InitCorpus /\ [][NextCorpus]_vars

(***************************************************************************)
(* categorise_offences: the main loop over the trials of the mapping and   *)
(* write_full_sheets.  A Counter and a dict are functions; the punishments *)
(* dict of a trial, which main reads in the order of its entries, is the   *)
(* sequence of its values, each under its own id.  A DataFrame is the      *)
(* sequence of its rows, a row the record of its cells, the cells of the   *)
(* victimGender columns a sequence.                                        *)
(***************************************************************************)
\* the entities of the sample trials
SamplePerson(id) ==
    NewPerson(CHOOSE p \in DefendantTagSamples \cup VictimTagSamples : p.id = id)

SampleOffences ==
    { [id |-> "o1", category |-> "theft", subcategory |-> Some("grandLarceny"),
       description |-> <<"O", "x">>, victims |-> <<>>],
      [id |-> "o2", category |-> "theft", subcategory |-> Some("grandLarceny"),
       description |-> <<"O", "x">>, victims |-> <<>>],
      [id |-> "o3", category |-> "kill", subcategory |-> None,
       description |-> <<"H", "i", "g", "h", " ", "S", "e", "a", "s">>,
       victims |-> <<SamplePerson("p1")>>],
      [id |-> "o4", category |-> "theft", subcategory |-> None,
       description |-> <<"A", "x">>, victims |-> <<>>] }

SampleOffence(id) == CHOOSE o \in SampleOffences : o.id = id

SampleVerdicts ==
    { [id |-> "v1", category |-> "guilty", subcategory |-> None],
      [id |-> "v2", category |-> "notGuilty", subcategory |-> None] }

SamplePunishment(id, category, punished) ==
    [id |-> id, category |-> category, subcategory |-> None,
     description |-> <<"J", "a", "l">>, defendants |-> punished]

\* the punishments of a record with one punishment of d1, and of records
\* with two whose tags come in either order
SamplePunishments ==
    LET u1 == SamplePunishment("u1", "imprison", <<SamplePerson("d1")>>)
        u2 == SamplePunishment("u2", "miscPunish", <<SamplePerson("d1")>>)
    IN  { <<u1>>, <<u1, u2>>, <<u2, u1>> }

\* the dict of the entities of a set, each under its ID
ById(S) == [id \in {x.id : x \in S} |-> CHOOSE x \in S : x.id = id]

\* Charges of one and of two defendants for one offence, for two offences of
\* one type, and for an offence of another type
SampleCharges ==
    { [defendant |-> ds, offence |-> os, verdict |-> v] :
        ds \in { <<SamplePerson("d1")>>,
                 <<SamplePerson("d1"), SamplePerson("d2")>> },
        os \in { <<SampleOffence("o1")>>,
                 <<SampleOffence("o1"), SampleOffence("o2")>>,
                 <<SampleOffence("o3")>> },
        v \in SampleVerdicts }

\* a Charge for a theft of no subcategory
PlainTheft ==
    [defendant |-> <<SamplePerson("d1")>>, offence |-> <<SampleOffence("o4")>>,
     verdict |-> CHOOSE v \in SampleVerdicts : v.category = "notGuilty"]

ReportDate == [year |-> 1845, month |-> 1, day |-> 6]

SampleTrial(id, flag, trial_charges, trial_punishments) ==
    [kind |-> "TrialData",
     date |-> ReportDate,
     id |-> id,
     corrected |-> flag,
     defendants |-> ById(UNION {Range(c.defendant) : c \in Range(trial_charges)}),
     victims |-> ById({SamplePerson("p1")}),
     offences |-> ById(UNION {Range(c.offence) : c \in Range(trial_charges)}),
     verdicts |-> ById({c.verdict : c \in Range(trial_charges)}),
     punishments |-> trial_punishments,
     charges |-> trial_charges]

\* the records a document may give under the ID id: a None, a TrialData of
\* one Charge, one without punishments, and corrected ones of two Charges
SampleTrials(id) ==
    {NoneResult, SampleTrial(id, FALSE, <<PlainTheft>>, <<>>)}
    \cup { SampleTrial(id, FALSE, <<c>>, ps) :
             c \in SampleCharges, ps \in SamplePunishments }
    \cup { SampleTrial(id, TRUE, <<a, b>>,
                       CHOOSE ps \in SamplePunishments : Len(ps) = 1) :
             a \in {c \in SampleCharges :
                      /\ c.offence = <<SampleOffence("o1")>>
                      /\ Len(c.defendant) = 1},
             b \in {c \in SampleCharges :
                      /\ c.offence = <<SampleOffence("o3")>>
                      /\ Len(c.defendant) = 1
                      /\ c.verdict.category = "notGuilty"} }

\* the ID of the k-th trial record of the corpus
TrialId(k) == <<"t", Digits[k + 1]>>

\* offence_key = (offence.category, offence.subcategory)
offence_key(offence) == <<offence.category, offence.subcategory>>

\* the entries of the defaultdicts of main
OffenceSummary ==
    [verdict_categories |-> EmptyDict, verdicts |-> EmptyDict,
     numerical_values |-> <<>>, punishments |-> EmptyDict]

Get(d, k, default) == IF k \in DOMAIN d THEN d[k] ELSE default

\* Counter.update of n occurrences of k
Count(counter, k) == Get(counter, k, 0)
Update(counter, k, n) ==
    IF n = 0 THEN counter ELSE Put(counter, k, Count(counter, k) + n)

RECURSIVE UpdateAll(_, _)
UpdateAll(counter, keys) ==
    IF keys = <<>> THEN counter
    ELSE UpdateAll(Update(counter, Head(keys), 1), Tail(keys))

\* "high seas" in offence.description.lower()
Contains(text, part) ==
    \E k \in 0..(Len(text) - Len(part)) :
        SubSeq(text, k + 1, k + Len(part)) = part
HighSeas == <<"h", "i", "g", "h", " ", "s", "e", "a", "s">>

\* str() of an Optional[bool]
StrOfFlag(flag) ==
    IF flag = None THEN "None" ELSE IF flag[1] THEN "True" ELSE "False"

\* trial.punishments.values(): the values in the order of their insertion
PunishmentValues(trial) == trial.punishments

\* [p for p in trial.punishments.values() if person in p.defendants]
PunishmentsOf(trial, person) ==
    SelectSeq(PunishmentValues(trial),
              LAMBDA p : \E k \in DOMAIN p.defendants : p.defendants[k] = person)

\* the stand-in punishment of a defendant who was not found guilty
NotPunished ==
    [id |-> <<>>, category |-> "Not Punished", subcategory |-> None,
     description |-> <<>>, defendants |-> <<>>]

\* the punishments the rows of a defendant are made of
RowPunishments(trial, charge, person) ==
    IF charge.verdict.category = "guilty"
    THEN PunishmentsOf(trial, person)
    ELSE <<NotPunished>>

\* the punishments the summary counts for a defendant
SummaryPunishments(trial, charge, person) ==
    IF charge.verdict.category = "guilty"
    THEN LET ps == PunishmentsOf(trial, person)
         IN  [k \in DOMAIN ps |-> <<ps[k].category, ps[k].subcategory>>]
    ELSE << <<"Not Guilty/Misc", None>> >>

\* the rows of one defendant of one offence of one Charge: the cross merge of
\* the verdict row, the person row and the punishment rows
PersonRows(trial, charge, offence, person) ==
    LET ps == RowPunishments(trial, charge, person)
        occupation == person.occupation
        classified == occupation # None /\ IsOccupation(occupation[1])
    IN  [k \in DOMAIN ps |->
            [trialId |-> trial.id,
             trialDate |-> trial.date,
             highSeas |->
                 StrOfFlag(Some(Contains(lower(offence.description), HighSeas))),
             verdictCategory |-> charge.verdict.category,
             verdictSubcategory |-> charge.verdict.subcategory,
             victimGender |-> [v \in DOMAIN offence.victims |->
                                  offence.victims[v].gender],
             defendantName |-> person.name,
             defendantAge |-> person.age,
             defendantGender |-> person.gender,
             defendantOccupation |->
                 IF classified THEN Some(String(occupation[1].name))
                 ELSE occupation,
             defendantWorkingClass |->
                 IF classified THEN StrOfFlag(occupation[1].working_class)
                 ELSE "None",
             defendantSkilled |->
                 IF classified THEN StrOfFlag(occupation[1].skilled)
                 ELSE "None",
             punishmentCategory |-> ps[k].category,
             punishmentSubcategory |-> ps[k].subcategory,
             punishmentDescription |-> ps[k].description]]

\* the rows the defendants of a Charge add for one of its offences
RECURSIVE OffenceRows(_, _, _, _)
OffenceRows(trial, charge, offence, people) ==
    IF people = <<>> THEN <<>>
    ELSE PersonRows(trial, charge, offence, Head(people))
         \o OffenceRows(trial, charge, offence, Tail(people))

\* the summary of an offence after the defendants of a Charge were counted
RECURSIVE Summarise(_, _, _, _)
Summarise(summary, trial, charge, people) ==
    IF people = <<>> THEN summary
    ELSE LET counted == SummaryPunishments(trial, charge, Head(people))
             verdict == charge.verdict
             next == [summary EXCEPT
                        !.punishments = UpdateAll(@, counted),
                        !.verdicts =
                            Update(@, <<verdict.category, verdict.subcategory>>,
                                   Len(counted)),
                        !.verdict_categories =
                            Update(@, verdict.category, Len(counted))]
         IN  Summarise(next, trial, charge, Tail(people))

\* the body of the loop over the offences of a Charge
FoldOffence(tables, trial, charge, offence) ==
    LET key == offence_key(offence)
    IN  [infos |-> Put(tables.infos, key,
                       Get(tables.infos, key, <<>>)
                       \o OffenceRows(trial, charge, offence, charge.defendant)),
         summaries |-> Put(tables.summaries, key,
                           Summarise(Get(tables.summaries, key, OffenceSummary),
                                     trial, charge, charge.defendant))]

RECURSIVE FoldOffences(_, _, _, _)
FoldOffences(tables, trial, charge, todo) ==
    IF todo = <<>> THEN tables
    ELSE FoldOffences(FoldOffence(tables, trial, charge, Head(todo)),
                      trial, charge, Tail(todo))

\* the loop over the Charges of a trial
RECURSIVE FoldCharges(_, _, _)
FoldCharges(tables, trial, todo) ==
    IF todo = <<>> THEN tables
    ELSE FoldCharges(FoldOffences(tables, trial, Head(todo), Head(todo).offence),
                     trial, Tail(todo))

InitReport ==
    /\ rpc = "trials"
    /\ total = 0
    /\ skipped = 0
    /\ corrected_trials = 0
    /\ offence_summaries = EmptyDict
    /\ offence_full_infos = EmptyDict
    /\ sheets = EmptyDict
    /\ report_status = "running"

\* one iteration of the loop over the trials of the mapping
FoldTrial(trial) ==
    /\ rpc = "trials"
    /\ total < MaxFold
    /\ total' = total + 1
    /\ IF trial = NoneResult
       THEN /\ skipped' = skipped + 1
            /\ UNCHANGED <<corrected_trials, offence_summaries, offence_full_infos>>
       ELSE LET tables == FoldCharges([infos |-> offence_full_infos,
                                       summaries |-> offence_summaries],
                                      trial, trial.charges)
            IN  /\ corrected_trials'
                   = IF trial.corrected THEN corrected_trials + 1
                     ELSE corrected_trials
                /\ offence_full_infos' = tables.infos
                /\ offence_summaries' = tables.summaries
                /\ skipped' = skipped
    /\ UNCHANGED <<parse, corpus, rpc, sheets, report_status>>

\* two keys of one category, one of them without a subcategory: tuples that
\* sorted() cannot compare
Unsortable(keys) ==
    \E a, b \in keys : a[1] = b[1] /\ a[2] = None /\ b[2] # None

\* the cell of the k-th victimGender column of a row, NA where the row has
\* no such victim
VictimGenderCell(row, k) ==
    IF k <= Len(row.victimGender) THEN row.victimGender[k] ELSE None

\* two rows with the same cells
SameRow(a, b) ==
    /\ [a EXCEPT !.victimGender = <<>>] = [b EXCEPT !.victimGender = <<>>]
    /\ \A k \in 1..(Len(a.victimGender) + Len(b.victimGender)) :
          VictimGenderCell(a, k) = VictimGenderCell(b, k)

\* DataFrame.drop_duplicates(): the first of the rows with the same cells
RECURSIVE drop_duplicates(_)
drop_duplicates(df) ==
    IF df = <<>> THEN <<>>
    ELSE LET before == drop_duplicates(SubSeq(df, 1, Len(df) - 1))
             row == df[Len(df)]
         IN  IF \E k \in DOMAIN before : SameRow(before[k], row)
             THEN before
             ELSE Append(before, row)

write_full_sheets ==
    [key \in DOMAIN offence_full_infos |->
        drop_duplicates(offence_full_infos[key])]

\* the end of main: the summaries are printed in the order of their keys and
\* the workbook is written if one was asked for
WriteReport(output_excel) ==
    /\ rpc = "trials"
    /\ rpc' = "done"
    /\ IF Unsortable(DOMAIN offence_summaries)
       THEN /\ report_status' = "TypeError"
            /\ sheets' = sheets
       ELSE IF output_excel
       THEN /\ report_status' = "written"
            /\ sheets' = write_full_sheets
       ELSE /\ report_status' = "returned"
            /\ sheets' = sheets
    /\ UNCHANGED <<parse, corpus, total, skipped, corrected_trials,
                   offence_summaries, offence_full_infos>>

InitCategorise ==
    /\ InitReport
    /\ NoCorpus
    /\ trial_tags = <<>>
    /\ pc = "none"
    /\ i = 0
    /\ trial_id = ""
    /\ date = NoDate
    /\ corrected = FALSE
    /\ persons = EmptyDict
    /\ defendants = EmptyDict
    /\ victims = EmptyDict
    /\ victim_joins = <<>>
    /\ offences = EmptyDict
    /\ verdicts = EmptyDict
    /\ punish_joins = <<>>
    /\ punishments = EmptyDict
    /\ charge_join = <<>>
    /\ charges = <<>>
    /\ result = NoneResult
    /\ exc = NoExc
    /\ trial_datas = <<>>
    /\ xml_status = "none"

NextCategorise ==
    \/ \E trial \in SampleTrials(TrialId(total + 1)) : FoldTrial(trial)
    \/ \E output_excel \in BOOLEAN : WriteReport(output_excel)

SpecCategorise == InitCategorise /\ [][NextCategorise]_vars

(***************************************************************************)
(* Properties of the charge reconciler.                                    *)
(***************************************************************************)
Last(s) == s[Len(s)]

Skips == {"skip_verdict", "skip_defendant", "skip_offence"}

\* the group's IDs found in the defendant, offence and verdict maps
ResolvedCount(g) ==
    Len(Resolve(g, defendants)) + Len(Resolve(g, offences))
    + Len(Resolve(g, verdicts))

SingleEach == Size(defendants) = 1 /\ Size(offences) = 1 /\ Size(verdicts) = 1

\* g names two of the three kinds once each and leaves the third out
OmitsOneKind(g) ==
    /\ Len(g) = 2
    /\ ResolvedCount(g) = 2
    /\ Len(Resolve(g, defendants)) <= 1
    /\ Len(Resolve(g, offences)) <= 1
    /\ Len(Resolve(g, verdicts)) <= 1

\* the Charge of the record's only defendant, offence and verdict
OnlyCharge ==
    [defendant |-> <<OnlyValue(defendants)>>,
     offence |-> <<OnlyValue(offences)>>,
     verdict |-> OnlyValue(verdicts)]

\* g names two of the three kinds once each, and Len(g) - 2 IDs that
\* resolve to nothing
NamesTwoKinds(g) ==
    /\ ResolvedCount(g) = 2
    /\ Len(Resolve(g, defendants)) <= 1
    /\ Len(Resolve(g, offences)) <= 1
    /\ Len(Resolve(g, verdicts)) <= 1

Substitutions(g) ==
    (IF Len(Resolve(g, verdicts)) = 0 /\ Size(verdicts) = 1 THEN 1 ELSE 0)
    + (IF Len(Resolve(g, defendants)) = 0 /\ Size(defendants) = 1 THEN 1 ELSE 0)
    + (IF Len(Resolve(g, offences)) = 0 /\ Size(offences) = 1 THEN 1 ELSE 0)

\* C2 as stated: a group yields a Charge only if every one of its IDs
\* resolved to a defendant, an offence or a verdict of the record; a group
\* whose resolved IDs fall short of its ID count and that is not dropped
\* fails the record.
C2_ChargeOnlyIfAllResolved ==
    [][LET g == charge_join' IN
          (ResolvedCount(g) # Len(g) /\ ReconcileCharge(g))
          => /\ pc' # "appended"
             /\ pc' \notin Skips => pc' \in Raises]_vars

\* C2 amended: a group yields a Charge only if its ID count equals the
\* number of its resolved IDs plus the number of substitutions made for it,
\* so without a substitution every ID resolved and each substitution covers
\* one ID that did not; the assertion on the ID count fails, without a
\* Charge, exactly for the groups past the three resolutions whose counts
\* differ.
C2_ChargeCountsSubstitutions ==
    [][LET g == charge_join' IN
          (pc' \in {"appended", "assert_count"} /\ ReconcileCharge(g))
          => IF Len(g) = ResolvedCount(g) + Substitutions(g)
             THEN pc' = "appended" /\ charges' # charges
             ELSE /\ pc' = "assert_count"
                  /\ charges' = charges
                  /\ exc' = [type |-> "AssertionError", line |-> 342]]_vars

\* in a record of two defendants a group with an ID that resolves to nothing
\* has yielded a Charge by a substitution
C2_Witness ==
    /\ pc = "appended"
    /\ corrected = TRUE
    /\ ResolvedCount(charge_join) = 2
    /\ Len(charge_join) = 3
    /\ Size(defendants) = 2
    /\ Len(charges) = 1
    /\ i = 1

\* the TrialData values the program holds
Returned ==
    {td \in Range(trial_datas) \cup {result} : td.kind = "TrialData"}

\* C3: no returned TrialData has an empty charges list: a record whose
\* groups were all dropped (or that has none) returns None, and in a record
\* with two verdicts a group naming no verdict is dropped.
C3_NeverEmptyCharges ==
    [][/\ \A td \in Returned' : Len(td.charges) >= 1
       /\ (pc' \in {"ret_nocharges", "ret_trial"} /\ charges' = <<>>)
          => result' = NoneResult
       /\ LET g == charge_join' IN
             (Size(verdicts) = 2 /\ Len(Resolve(g, verdicts)) = 0
                                 /\ ReconcileCharge(g))
             => pc' = "skip_verdict" /\ charges' = charges]_vars

\* a record of one defendant, one offence and two verdicts whose only group
\* was dropped has returned None
C3_Witness ==
    /\ pc = "ret_nocharges"
    /\ charge_join = <<"d1", "o1">>
    /\ ResolvedCount(charge_join) = 2
    /\ result = NoneResult
    /\ Size(defendants) = 1 /\ Size(offences) = 1 /\ Size(verdicts) = 2
    /\ i = 1

\* g names nobody of a kind of which the record has more than one
ZeroOfMany(g) ==
    \/ Size(verdicts) > 1 /\ Len(Resolve(g, verdicts)) = 0
    \/ Size(defendants) > 1 /\ Len(Resolve(g, defendants)) = 0
    \/ Size(offences) > 1 /\ Len(Resolve(g, offences)) = 0

\* C4 as stated: every such group is dropped without an error.
C4_AmbiguousAlwaysDropped ==
    [][LET g == charge_join' IN
          (ZeroOfMany(g) /\ ReconcileCharge(g))
          => pc' \in Skips /\ charges' = charges /\ exc' = NoExc]_vars

\* C4 amended: such a group is dropped without an error unless more than one
\* of its IDs resolves to a verdict, and a record with a reconciled Charge
\* whose groups raised nothing returns a TrialData.
C4_AmbiguousDropped ==
    [][/\ LET g == charge_join' IN
             (ZeroOfMany(g) /\ Len(Resolve(g, verdicts)) <= 1
                            /\ ReconcileCharge(g))
             => pc' \in Skips /\ charges' = charges /\ exc' = NoExc
       /\ (ReturnTrial /\ Len(charges) >= 1)
          => /\ result'.kind = "TrialData"
             /\ result'.charges = charges]_vars

\* one group of a two-verdict record was dropped, another reconciled, and
\* the record has returned a TrialData
C4_Witness ==
    /\ pc = "ret_trial"
    /\ result.kind = "TrialData"
    /\ Size(verdicts) = 2 /\ Size(defendants) = 1 /\ Size(offences) = 1
    /\ i = 2 /\ Len(charges) = 1

WellFormedCharge(c, td_verdicts) ==
    /\ c.verdict \in Values(td_verdicts)
    /\ Len(c.defendant) >= 1
    /\ Len(c.offence) >= 1

\* C5: every Charge, in the list being built and in every returned
\* TrialData, has one verdict of the record, at least one defendant and at
\* least one offence.
C5_ChargeShape ==
    /\ \A c \in Range(charges) : WellFormedCharge(c, verdicts)
    /\ \A td \in Returned :
          \A c \in Range(td.charges) : WellFormedCharge(c, td.verdicts)

C5_Witness ==
    /\ pc = "ret_trial"
    /\ result.kind = "TrialData"
    /\ Len(result.charges) = 2
    /\ \E c \in Range(result.charges) : Len(c.defendant) = 2

\* C6: a group with more than one ID resolving to a verdict yields no Charge
\* and is not dropped: the assertion of line 316 fails, and parse_xml ends
\* in its RuntimeError without a result list.
C6_ManyVerdictsFatal ==
    [][/\ LET g == charge_join' IN
             (Len(Resolve(g, verdicts)) > 1 /\ ReconcileCharge(g))
             => /\ pc' = "assert_verdict"
                /\ exc' = [type |-> "AssertionError", line |-> 316]
                /\ charges' = charges
       /\ pc = "assert_verdict"
          => /\ pc' = "done"
             /\ xml_status' = "RuntimeError"
             /\ trial_datas' = trial_datas]_vars

C6_Witness ==
    /\ pc = "done"
    /\ xml_status = "RuntimeError"
    /\ exc = [type |-> "AssertionError", line |-> 316]
    /\ trial_datas = <<>>

\* the verdict branch of the loop body lets g through to the defendants
VerdictStagePassed(g) ==
    \/ Len(Resolve(g, verdicts)) = 1
    \/ Len(Resolve(g, verdicts)) = 0 /\ Size(verdicts) = 1

\* the defendant branch lets g through to the offences
DefendantStagePassed(g) ==
    /\ VerdictStagePassed(g)
    /\ Len(Resolve(g, defendants)) >= 1 \/ Size(defendants) = 1

\* every ID of g is one verdict, or a defendant, or an offence of the record
FullyResolved(g) ==
    /\ Len(Resolve(g, verdicts)) = 1
    /\ Len(Resolve(g, defendants)) >= 1
    /\ Len(Resolve(g, offences)) >= 1
    /\ ResolvedCount(g) = Len(g)

\* C7 as stated: the defendants of a group follow the verdict policy: one
\* resolved defendant is used, none with a single defendant in the record
\* substitutes it and marks the record corrected, none otherwise drops the
\* group, and more than one resolved defendant fails the record.
C7_DefendantsAsVerdicts ==
    [][LET g == charge_join' IN
          (VerdictStagePassed(g) /\ ReconcileCharge(g))
          => LET n == Len(Resolve(g, defendants))
             IN  /\ (n = 1 /\ pc' = "appended")
                    => Last(charges').defendant = Resolve(g, defendants)
                 /\ (n = 0 /\ Size(defendants) = 1) => corrected' = TRUE
                 /\ (n = 0 /\ Size(defendants) # 1) => pc' = "skip_defendant"
                 /\ n > 1 => pc' \in Raises /\ charges' = charges]_vars

\* C7 amended: one or more resolved defendants are all used, in group order,
\* and a fully resolved group yields its Charge however many defendants it
\* names; none resolved with a single defendant in the record substitutes
\* it and marks the record corrected; none resolved otherwise drops the
\* group without an error.
C7_DefendantList ==
    [][LET g == charge_join' IN
          (VerdictStagePassed(g) /\ ReconcileCharge(g))
          => LET n == Len(Resolve(g, defendants))
             IN  /\ (n >= 1 /\ pc' = "appended")
                    => Last(charges').defendant = Resolve(g, defendants)
                 /\ FullyResolved(g)
                    => /\ pc' = "appended"
                       /\ charges' # charges
                       /\ Last(charges').defendant = Resolve(g, defendants)
                 /\ (n = 0 /\ Size(defendants) = 1)
                    => /\ corrected' = TRUE
                       /\ pc' = "appended"
                          => Last(charges').defendant
                             = <<OnlyValue(defendants)>>
                 /\ (n = 0 /\ Size(defendants) # 1)
                    => /\ pc' = "skip_defendant"
                       /\ charges' = charges
                       /\ exc' = NoExc]_vars

\* a group naming both defendants of the record has yielded a Charge
C7_Witness ==
    /\ pc = "appended"
    /\ Len(Resolve(charge_join, defendants)) = 2
    /\ Size(defendants) = 2
    /\ Len(Last(charges).defendant) = 2
    /\ exc = NoExc

\* the count assertion of line 342 holds of g: its IDs are as many as the
\* entities resolved and substituted for it
CountMatches(g) == Len(g) = ResolvedCount(g) + Substitutions(g)

\* C8 as stated: a group naming one or more offences yields a Charge that
\* holds all of them in group order; a group naming none takes the record's
\* only offence as a singleton list and marks the record corrected; with no
\* or several offences in the record it is dropped without an error.
C8_OffencesYieldCharge ==
    [][LET g == charge_join' IN
          (DefendantStagePassed(g) /\ ReconcileCharge(g))
          => LET m == Len(Resolve(g, offences))
             IN  /\ m >= 1
                    => /\ pc' = "appended"
                       /\ charges' # charges
                       /\ Last(charges').offence = Resolve(g, offences)
                 /\ (m = 0 /\ Size(offences) = 1)
                    => /\ corrected' = TRUE
                       /\ pc' = "appended"
                          => Last(charges').offence = <<OnlyValue(offences)>>
                 /\ (m = 0 /\ Size(offences) # 1)
                    => /\ pc' = "skip_offence"
                       /\ charges' = charges
                       /\ exc' = NoExc]_vars

\* C8 amended: the offences of a group are a list.  A group naming one or
\* more offences is never dropped; it yields a Charge, whose offence list is
\* all of them in group order, exactly when its IDs are as many as the
\* entities resolved and substituted for it (so whenever all its IDs
\* resolve), and fails the assertion of line 342 otherwise.  A group naming
\* none takes the record's only offence as a singleton list and marks the
\* record corrected, yielding its Charge under the same condition; with no
\* or several offences in the record it is dropped without an error.
C8_OffenceList ==
    [][LET g == charge_join' IN
          (DefendantStagePassed(g) /\ ReconcileCharge(g))
          => LET m == Len(Resolve(g, offences))
                 Listed(os) ==
                     IF CountMatches(g)
                     THEN /\ pc' = "appended"
                          /\ charges' = Append(charges, Last(charges'))
                          /\ Last(charges').offence = os
                          /\ exc' = NoExc
                     ELSE /\ pc' = "assert_count"
                          /\ charges' = charges
                          /\ exc' = [type |-> "AssertionError", line |-> 342]
             IN  /\ m >= 1 => Listed(Resolve(g, offences))
                 /\ FullyResolved(g) => pc' = "appended"
                 /\ (m = 0 /\ Size(offences) = 1)
                    => /\ corrected' = TRUE
                       /\ Listed(<<OnlyValue(offences)>>)
                 /\ (m = 0 /\ Size(offences) # 1)
                    => /\ pc' = "skip_offence"
                       /\ charges' = charges
                       /\ exc' = NoExc]_vars

\* a group naming both offences of the record has yielded the first Charge
C8_Witness ==
    /\ pc = "appended"
    /\ Len(Resolve(charge_join, offences)) = 2
    /\ Size(offences) = 2
    /\ Len(Last(charges).offence) = 2
    /\ Len(charges) = 1
    /\ exc = NoExc

(***************************************************************************)
(* Properties of the entity extractors.                                    *)
(***************************************************************************)
PersonTags == DefendantTagSamples \cup DefendantTagVariants \cup VictimTagSamples
OffenceTags == OffenceTagSamples \cup OffenceTagVariants
VerdictTags == VerdictTagSamples \cup VerdictTagVariants
PunishmentTags == PunishmentTagSamples \cup PunishmentTagVariants

DuplicateReturns == {"ret_person", "ret_offence", "ret_verdict", "ret_punishment"}

\* C9: extracting an ID a second time with the same field values goes on
\* with the entity map as it was; with different field values it ends the
\* record with a null result, which parse_xml appends whatever charge groups
\* the record holds.
C9_DuplicateIds ==
    [][/\ \A p \in PersonTags :
             (p.id \in DOMAIN persons /\ ExtractPerson(p))
             => IF NewPerson(p) = persons[p.id]
                THEN persons' = persons /\ pc' = pc /\ exc' = NoExc
                ELSE pc' = "ret_person" /\ result' = NoneResult
       /\ \A o \in OffenceTags :
             (o.id \in DOMAIN offences /\ ExtractOffence(o))
             => IF NewOffence(o) = offences[o.id]
                THEN offences' = offences /\ pc' = pc /\ exc' = NoExc
                ELSE pc' = "ret_offence" /\ result' = NoneResult
       /\ \A v \in VerdictTags :
             (v.id \in DOMAIN verdicts /\ ExtractVerdict(v))
             => IF NewVerdict(v) = verdicts[v.id]
                THEN verdicts' = verdicts /\ pc' = pc /\ exc' = NoExc
                ELSE pc' = "ret_verdict" /\ result' = NoneResult
       /\ \A p \in PunishmentTags :
             (p.id \in DOMAIN punishments /\ ExtractPunishment(p))
             => IF NewPunishment(p) = punishments[p.id]
                THEN punishments' = punishments /\ pc' = pc /\ exc' = NoExc
                ELSE pc' = "ret_punishment" /\ result' = NoneResult
       /\ pc \in DuplicateReturns
          => trial_datas' = Append(trial_datas, NoneResult)]_vars

\* an offence ID was scanned twice with the same fields and then a third
\* time with another subcategory
C9_Witness ==
    /\ pc = "ret_offence"
    /\ i = 2
    /\ Size(offences) = 1
    /\ result = NoneResult

\* positions inside the five extraction loops of parse_trial_tag
ExtractLoops ==
    {"defendant_tags", "victim_tags", "offences", "verdicts", "punishments"}

\* C10 as stated: a duplicate ID with other field values raises an error in
\* parse_trial_tag, and parse_xml ends in its RuntimeError.
C10_ConflictRaises ==
    [][/\ \A p \in PersonTags :
             (Conflicts(persons, p.id, NewPerson(p)) /\ ExtractPerson(p))
             => pc' \in Raises /\ exc' # NoExc
       /\ \A o \in OffenceTags :
             (Conflicts(offences, o.id, NewOffence(o)) /\ ExtractOffence(o))
             => pc' \in Raises /\ exc' # NoExc
       /\ \A v \in VerdictTags :
             (Conflicts(verdicts, v.id, NewVerdict(v)) /\ ExtractVerdict(v))
             => pc' \in Raises /\ exc' # NoExc
       /\ \A p \in PunishmentTags :
             (Conflicts(punishments, p.id, NewPunishment(p))
                 /\ ExtractPunishment(p))
             => pc' \in Raises /\ exc' # NoExc
       /\ pc \in DuplicateReturns => xml_status' = "RuntimeError"]_vars

\* C10 amended: a duplicate ID with other field values is a soft failure:
\* parse_trial_tag returns None without raising, parse_xml appends the None
\* and goes on to the next record, and a RuntimeError of parse_xml stems
\* from an assertion of the charge loop only.
C10_ConflictIsSoft ==
    [][/\ (pc \in ExtractLoops /\ pc' \notin ExtractLoops \cup {"charges"})
          => pc' \in DuplicateReturns /\ exc' = NoExc /\ result' = NoneResult
       /\ pc \in DuplicateReturns
          => /\ pc' = "trial_tags"
             /\ xml_status' = "running"
             /\ Len(trial_datas') = Len(trial_datas) + 1
             /\ Last(trial_datas') = NoneResult
       /\ xml_status' = "RuntimeError"
          => exc' \in {[type |-> "AssertionError", line |-> 316],
                       [type |-> "AssertionError", line |-> 342]}]_vars

\* parse_xml has appended the None of a record given up on a verdict ID
\* scanned with two categories, and has returned its list
C10_Witness ==
    /\ pc = "ret_verdict"
    /\ result = NoneResult
    /\ exc = NoExc
    /\ xml_status = "running"
    /\ Size(verdicts) = 1

(***************************************************************************)
(* Properties of the offenceVictim and defendantPunishment joins.          *)
(***************************************************************************)
\* the IDs of map d that some group of joins lists together with id
JoinedIds(joins, id, d) ==
    { x \in DOMAIN d :
        \E k \in DOMAIN joins : id \in Range(joins[k]) /\ x \in Range(joins[k]) }

NoRepeats(s) == \A a, b \in DOMAIN s : s[a] = s[b] => a = b

\* C11: the victims of every offence are the victim-role Persons joined to
\* it by an offenceVictim group, each held once.
C11_VictimsOnce ==
    pc \in {"offences", "verdicts", "punishments"} \cup ChargeLoop
    => \A id \in DOMAIN offences :
          /\ Range(offences[id].victims)
             = {victims[x] : x \in JoinedIds(victim_joins, id, victims)}
          /\ NoRepeats(offences[id].victims)

\* two join elements name the pair (o1, p1) and the offence holds p1 twice
C11_Witness ==
    /\ pc \in ChargeLoop
    /\ victim_joins = << <<"o1", "p1">>, <<"o1", "p1">> >>
    /\ "o1" \in DOMAIN offences
    /\ Len(offences["o1"].victims) = 2
    /\ offences["o1"].victims[1] = offences["o1"].victims[2]

\* C12: the defendants of every punishment are Persons of the defendant
\* role, those joined to it by a defendantPunishment group; a punishment
\* joined to none has an empty list and the extraction raises nothing.
C12_DefendantRoleOnly ==
    pc \in {"punishments"} \cup ChargeLoop
    => /\ exc = NoExc
       /\ \A id \in DOMAIN punishments :
             Range(punishments[id].defendants)
             = {defendants[x] : x \in JoinedIds(punish_joins, id, defendants)}

\* a punishment joined to a victim holds that victim as a defendant
C12_Witness ==
    /\ pc \in ChargeLoop
    /\ punish_joins = << <<"p1", "u1">> >>
    /\ "p1" \in DOMAIN victims
    /\ "u1" \in DOMAIN punishments
    /\ punishments["u1"].defendants = <<victims["p1"]>>

(***************************************************************************)
(* Properties of the age attribute.                                        *)
(***************************************************************************)
\* the tag p with its age element taken out
WithoutAge(p) == [p EXCEPT !.age = None]

UnparsableAge(p) == p.age # None /\ ~IsIntLiteral(p.age[1])

\* C20: a person tag whose age value is no integer gives the Person of the
\* same tag without an age element, and extracting it is the step that
\* extracting that other tag would be: nothing is raised and the record
\* goes on (or ends on a duplicate ID) as it would with the age missing.
C20_UnparsableAgeAbsent ==
    [][\A p \in PersonTags :
          (UnparsableAge(p) /\ ExtractPerson(p))
          => /\ NewPerson(p).age = None
             /\ NewPerson(p) = NewPerson(WithoutAge(p))
             /\ ExtractPerson(WithoutAge(p))
             /\ exc' = NoExc
             /\ pc' \notin Raises]_vars

\* a record whose defendant d1 was tagged with the age "3x" has returned a
\* TrialData in which d1 has no age
C20_Witness ==
    /\ pc = "ret_trial"
    /\ result.kind = "TrialData"
    /\ "d1" \in DOMAIN result.defendants
    /\ result.defendants["d1"].age = None
    /\ result.defendants["d1"].name = <<"J", "o", " ", "A", "l">>

(***************************************************************************)
(* Properties of the error path of parse_xml.                              *)
(***************************************************************************)
\* C13: when parse_trial_tag raises for a record, parse_xml ends at once in
\* its RuntimeError: the results appended so far are not returned, and no
\* step follows, so no later record is processed.
C13_HardFailureAbortsFile ==
    [][/\ pc \in Raises
          => /\ pc' = "done"
             /\ xml_status' = "RuntimeError"
             /\ trial_datas' = trial_datas
       /\ pc # "done"]_vars

\* the second record of a document raised after the first was appended, and
\* parse_xml ended in an error other than its RuntimeError
C13_Witness ==
    /\ pc = "done"
    /\ Len(trial_tags) = 2
    /\ Len(trial_datas) = 1
    /\ trial_datas[1].kind = "TrialData"
    /\ xml_status \notin {"running", "returned", "RuntimeError"}

\* C14: whatever parse_trial_tag raises on a malformed record, parse_xml
\* ends in its RuntimeError and in no error of another kind.
C14_ViolationsWrapped ==
    (pc = "done" /\ xml_status # "returned") => xml_status = "RuntimeError"

\* an offence tag without an offenceCategory ended parse_xml in a TypeError
C14_Witness ==
    /\ pc = "done"
    /\ exc = [type |-> "TypeError", line |-> 165]
    /\ xml_status = "TypeError"

(***************************************************************************)
(* Properties of find_victorian_files.                                     *)
(***************************************************************************)
\* name begins with four digits, then one or more word characters, then
\* .xml
YearPattern(name) ==
    /\ Len(name) >= 4
    /\ \A k \in 1..4 : IsDigit(name[k])
    /\ \E j \in 5..Len(name) :
          /\ \A k \in 5..j : IsWord(name[k])
          /\ HasAt(name, j + 1, DotXml)

\* find_victorian_files has returned
FilesFound == cpc \in {"pool", "done"} /\ data_xml_folder.is_dir

\* C19: find_victorian_files returns, in ascending str order, exactly the
\* .xml entries of the folder whose name begins with a year of the range
\* (both ends included) followed by the pattern: with [1833, 1913],
\* 1845_sessions.xml is selected, 1820_sessions.xml and sessions.xml are not.
C19_VictorianFiles ==
    FilesFound
    => /\ \A a, b \in DOMAIN files : a < b => LexLess(files[a], files[b])
       /\ Range(files)
          = { n \in data_xml_folder.names :
                /\ GlobMatch(n)
                /\ YearPattern(n)
                /\ min_year <= DecimalValue(SubSeq(n, 1, 4))
                /\ DecimalValue(SubSeq(n, 1, 4)) <= max_year }
       /\ (min_year = 1833 /\ max_year = 1913)
          => /\ Name1845Sessions \in data_xml_folder.names
                => Name1845Sessions \in Range(files)
             /\ Name1820Sessions \notin Range(files)
             /\ NameSessions \notin Range(files)

\* glob listed the file of 1913 first; the files of 1833 and 1913 are
\* returned in order and the file of 1820 is left out
C19_Witness ==
    /\ FilesFound
    /\ min_year = 1833 /\ max_year = 1913
    /\ potential_xmls = <<Name1913a, Name1820Sessions, Name1833a>>
    /\ files = <<Name1833a, Name1913a>>

(***************************************************************************)
(* Properties of the corpus run.                                           *)
(***************************************************************************)
\* the run has ended after its folder test
RunEnded == cpc = "done" /\ data_xml_folder.is_dir

\* parse_xml raises on none of the selected files
OnlySoftFailures ==
    \A k \in DOMAIN files : ParseXmlResult(files[k]).kind = "list"

\* C15: a corpus whose files incur soft failures only, a file whose records
\* all end as None included, gives a result list per file and a returned
\* mapping.
C15_SoftFailuresReturn ==
    (RunEnded /\ OnlySoftFailures) => run_status = "returned"

\* the one selected file has two records, both None, and the run has ended
\* in StopIteration
C15_Witness ==
    /\ RunEnded
    /\ files = <<Name1913a>>
    /\ trials_list_per_date
       = <<[kind |-> "list", trials |-> <<NoneResult, NoneResult>>]>>
    /\ run_status = "StopIteration"

\* C16: the returned mapping has, for each selected file, the date of the
\* file's first TrialData mapped to the file's whole result list.
C16_EntryPerFile ==
    (RunEnded /\ run_status = "returned")
    => \A k \in DOMAIN files :
          LET trials == ParseXmlResult(files[k]).trials
          IN  /\ FirstDate(trials) # None
              /\ FirstDate(trials)[1] \in DOMAIN trials_per_date
              /\ trials_per_date[FirstDate(trials)[1]] = trials

\* two selected files begin on the same date and the returned mapping has
\* one entry, the list of the second
C16_Witness ==
    /\ RunEnded
    /\ run_status = "returned"
    /\ files = <<Name1833a, Name1845Sessions>>
    /\ Size(trials_per_date) = 1
    /\ \A d \in DOMAIN trials_per_date :
          trials_per_date[d] = ParseXmlResult(Name1845Sessions).trials

\* the lists of the files in file order, each parsed on its own
ListsInFileOrder == [k \in DOMAIN files |-> ParseXmlResult(files[k]).trials]

\* C17: whatever the order in which the tasks end, the slot of each task
\* holds what parse_xml makes of its file, the run returns exactly when no
\* file raises and every file has a TrialData, and the mapping returned is
\* the collation of the lists in file order.
C17_OrderIndependent ==
    /\ \A k \in DOMAIN trials_list_per_date :
          trials_list_per_date[k] \in {Pending, ParseXmlResult(files[k])}
    /\ RunEnded
       => /\ run_status = "returned"
             <=> /\ OnlySoftFailures
                 /\ Collate(ListsInFileOrder, EmptyDict).kind = "dict"
          /\ run_status = "returned"
             => trials_per_date = Collate(ListsInFileOrder, EmptyDict).dict

\* the task of the second file ended before the task of the first, both
\* files begin on the same date, and the mapping has been returned
C17_Witness ==
    /\ RunEnded
    /\ run_status = "returned"
    /\ files = <<Name1833a, Name1845Sessions>>
    /\ completion = <<2, 1>>
    /\ trials_per_date = Collate(ListsInFileOrder, EmptyDict).dict

\* C18: once the task of a file has failed the run returns no mapping and
\* ends by raising the exception the pool kept; a task that has ended is
\* not run again.
C18_FailureFailsRun ==
    [][/\ (\E k \in DOMAIN tasks' : tasks'[k] = "failed")
          => /\ run_status' # "returned"
             /\ trials_per_date' = EmptyDict
             /\ cpc' = "done"
                => /\ pool_exc' # None
                   /\ run_status' = pool_exc'[1].type
       /\ \A k \in DOMAIN tasks :
             tasks[k] \in {"done", "failed"}
             => /\ k \in DOMAIN tasks'
                /\ tasks'[k] = tasks[k]
       /\ \A a, b \in DOMAIN completion' :
             completion'[a] = completion'[b] => a = b]_vars

\* one task failed, the two others ended well, and the run has raised
C18_Witness ==
    /\ RunEnded
    /\ \E k \in DOMAIN tasks : tasks[k] = "failed"
    /\ Cardinality({k \in DOMAIN tasks : tasks[k] = "done"}) = 2
    /\ run_status = "RuntimeError"
    /\ trials_per_date = EmptyDict


(***************************************************************************)
(* Properties of the age and occupation of a Person.                       *)
(***************************************************************************)
DetailedPersonTags == DefendantTagSamples \cup DefendantTagDetails

\* the Persons of a TrialData
PersonsOf(td) == Values(td.defendants) \cup Values(td.victims)

\* C21: the age of every Person of every returned TrialData is None or a
\* non-negative integer, whatever the age value of the source says, also
\* when that value is the literal of a negative integer.
C21_AgeNonNegative ==
    \A td \in Returned :
        \A p \in PersonsOf(td) : p.age = None \/ p.age[1] >= 0

\* a record whose defendant d1 was tagged with the age "-5" has returned a
\* TrialData in which the age of d1 is -5
C21_Witness ==
    /\ pc = "ret_trial"
    /\ result.kind = "TrialData"
    /\ "d1" \in DOMAIN result.defendants
    /\ result.defendants["d1"].age = Some(0 - 5)

\* the accepted rows of the table that spell their name as the text t
RowsNamed(t) ==
    {k \in DOMAIN OccupationCsvSamples :
        /\ HasLetter(str(OccupationCsvSamples[k].Occupation))
        /\ str(OccupationCsvSamples[k].Occupation) = t}

Code(cell) == Strip(lower(str(cell)))

Max(S) == CHOOSE k \in S : \A other \in S : other <= k

\* C22: a Person tagged with an occupation holds an Occupation when the
\* normalized titlecase form of the tagged text is a key of the table, and
\* that Occupation is the table's entry for the key: it bears the name, is
\* working class when the class code of its row is "w", and is skilled
\* when the skill code is "y".  When the form is no key of the table the
\* Person holds the form itself, a string and no Occupation.
C22_OccupationClassified ==
    [][\A p \in DetailedPersonTags :
          (p.occupation # None /\ ExtractPerson(p) /\ pc' = "defendant_tags")
          => LET form == normalize_text_titlecase(p.occupation[1])
                 held == persons'[p.id].occupation[1]
             IN  IF RowsNamed(form) # {}
                 THEN LET row == OccupationCsvSamples[Max(RowsNamed(form))]
                      IN  /\ IsOccupation(held)
                          /\ held = occupation_dict[form]
                          /\ held.name = form
                          /\ held.working_class = Some(Code(row.class) = <<"w">>)
                          /\ Code(row.skilled) = <<"y">>
                             => held.skilled = Some(TRUE)
                 ELSE /\ ~IsOccupation(held)
                      /\ held = String(form)]_vars

\* a returned TrialData holds d1, tagged "malo", with the Occupation of the
\* row Malo (class w, skill y), and d2, tagged "jo", a name of no row, with
\* the string Jo
C22_Witness ==
    /\ pc = "ret_trial"
    /\ result.kind = "TrialData"
    /\ DOMAIN result.defendants = {"d1", "d2"}
    /\ result.defendants["d1"].occupation
       = Some([name |-> <<"M", "a", "l", "o">>, working_class |-> Some(TRUE),
               skilled |-> Some(TRUE)])
    /\ result.defendants["d2"].occupation = Some(String(<<"J", "o">>))

\* C23: the table is keyed by the normalized name: for every row the table
\* accepts, a Person tagged with an occupation that normalizes to the value
\* the name of the row normalizes to holds the Occupation of that row.
C23_KeyedByNormalizedName ==
    [][\A p \in DetailedPersonTags : \A k \in DOMAIN OccupationCsvSamples :
          LET row == OccupationCsvSamples[k]
          IN  (/\ p.occupation # None
               /\ Accepted(row)
               /\ normalize_text_titlecase(p.occupation[1])
                  = normalize_text_titlecase(str(row.Occupation))
               /\ ExtractPerson(p) /\ pc' = "defendant_tags")
              => persons'[p.id].occupation
                 = Some(Occupation(row.Occupation, row.class, row.skilled))]_vars

\* a returned TrialData holds d2, tagged "lax" as the row lax of the table
\* is, with the string Lax
C23_Witness ==
    /\ pc = "ret_trial"
    /\ result.kind = "TrialData"
    /\ "d2" \in DOMAIN result.defendants
    /\ result.defendants["d2"].occupation = Some(String(<<"L", "a", "x">>))
    /\ \E k \in DOMAIN OccupationCsvSamples :
          OccupationCsvSamples[k].Occupation = <<"l", "a", "x">>


(***************************************************************************)
(* Properties of the corrected flag.                                       *)
(***************************************************************************)
\* the step is one iteration of the charge loop that raises nothing
Iteration == pc \in ChargeLoop /\ i' = i + 1 /\ pc' \in ChargeLoop

\* a substitution was made for g: a kind with no resolved ID and one entity
\* in the record, at a branch that g reached
SubstitutionMade(g) ==
    \/ Len(Resolve(g, verdicts)) = 0 /\ Size(verdicts) = 1
    \/ /\ VerdictStagePassed(g)
       /\ Len(Resolve(g, defendants)) = 0 /\ Size(defendants) = 1
    \/ /\ DefendantStagePassed(g)
       /\ Len(Resolve(g, offences)) = 0 /\ Size(offences) = 1

\* C25 as stated: the flag of a record is raised by the groups that yield a
\* Charge built with a substitution and by nothing else: an iteration that
\* drops its group leaves the flag as it was, whatever was substituted
\* before the drop.
C25_CorrectedIffCharge ==
    [][Iteration
       => corrected'
          = (corrected
             \/ (pc' = "appended" /\ Substitutions(charge_join') > 0))]_vars

\* C25: the flag of a returned TrialData is that of the charge loop, which
\* starts lowered and is raised by exactly the iterations that made a
\* substitution for their group, those that went on to drop the group
\* included; a Charge built with a substitution always raises it.
C25_CorrectedIffSubstituted ==
    [][/\ Iteration
          => corrected' = (corrected \/ SubstitutionMade(charge_join'))
       /\ (pc \in ChargeLoop /\ pc' = "ret_trial")
          => result'.corrected = corrected
       /\ (corrected' # corrected /\ ~Iteration)
          => (corrected' = FALSE \/ pc' \in Raises)]_vars

\* a record of one verdict and two defendants has returned a TrialData
\* marked corrected whose only Charge names its defendant, offence and
\* verdict: the mark is that of the other group, dropped for want of a
\* defendant after the verdict had been substituted
C25_Witness ==
    /\ pc = "ret_trial"
    /\ result.kind = "TrialData"
    /\ result.corrected = TRUE
    /\ Len(result.charges) = 1
    /\ i = 2
    /\ Size(defendants) = 2 /\ Size(verdicts) = 1
    /\ ResolvedCount(charge_join) = Len(charge_join)
    /\ Substitutions(charge_join) = 0


(***************************************************************************)
(* Properties of the lists of a Charge.                                    *)
(***************************************************************************)
\* C28: no Charge of a record lists a defendant twice or an offence twice,
\* whatever its group lists, also when the group repeats the ID of a
\* defendant or of an offence.
C28_ChargeListsOnce ==
    \A td \in Returned :
        \A k \in DOMAIN td.charges :
            NoRepeats(td.charges[k].defendant) /\ NoRepeats(td.charges[k].offence)

\* the group "d1 d1 o1 v1" has yielded a Charge of a returned TrialData that
\* lists the defendant d1 twice
C28_Witness ==
    /\ pc = "ret_trial"
    /\ result.kind = "TrialData"
    /\ charge_join = <<"d1", "d1", "o1", "v1">>
    /\ Len(result.charges) = 1
    /\ result.charges[1].defendant = <<defendants["d1"], defendants["d1"]>>


(***************************************************************************)
(* Referential integrity of a TrialData.                                   *)
(***************************************************************************)
\* x is the entry of the map d under the ID it bears
StoredIn(x, d) == x.id \in DOMAIN d /\ d[x.id] = x

\* every reference of td is an entry of a map of td
Integrity(td) ==
    /\ \A c \in Range(td.charges) :
          /\ \A x \in Range(c.defendant) : StoredIn(x, td.defendants)
          /\ \A x \in Range(c.offence) : StoredIn(x, td.offences)
          /\ StoredIn(c.verdict, td.verdicts)
    /\ \A o \in Values(td.offences) :
          \A x \in Range(o.victims) : StoredIn(x, td.victims)

\* the Charge c is that of the group g: what it names is named by g, or is
\* the only entity of its kind in the record
ChargeOf(c, g) ==
    /\ \A x \in Range(c.defendant) : x.id \in Range(g) \/ Size(defendants) = 1
    /\ \A x \in Range(c.offence) : x.id \in Range(g) \/ Size(offences) = 1
    /\ c.verdict.id \in Range(g) \/ Size(verdicts) = 1

\* C29: every defendant, offence and verdict a Charge of a returned
\* TrialData refers to is the entry of the TrialData's map of that kind
\* under its own ID, every victim of an offence is such an entry of the
\* victims map, and the Charges stand in the order of their groups: an
\* iteration of the charge loop leaves the list as it is or puts the Charge
\* of its group at the end, and the list is returned as built.
C29_ReferentialIntegrity ==
    [][/\ (pc \in ChargeLoop /\ pc' = "ret_trial")
          => /\ Integrity(result')
             /\ result'.charges = charges
       /\ Iteration
          => \/ pc' # "appended" /\ charges' = charges
             \/ /\ pc' = "appended"
                /\ Len(charges') = Len(charges) + 1
                /\ SubSeq(charges', 1, Len(charges)) = charges
                /\ ChargeOf(Last(charges'), charge_join')]_vars

\* a returned TrialData of two Charges, the first of a group that names its
\* verdict and the second of one that names an unknown ID in its place,
\* whose offence o1 has the victim p1
C29_Witness ==
    /\ pc = "ret_trial"
    /\ result.kind = "TrialData"
    /\ Len(result.charges) = 2
    /\ charge_join = <<"d1", "o1", "x9">>
    /\ "d1" \in DOMAIN result.defendants
    /\ "p1" \in DOMAIN result.victims
    /\ DOMAIN result.verdicts = {"v1"}
    /\ result.charges[1].defendant = <<result.defendants["d1"]>>
    /\ result.charges[2].verdict = result.verdicts["v1"]
    /\ "o1" \in DOMAIN result.offences
    /\ result.offences["o1"].victims = <<result.victims["p1"]>>


(***************************************************************************)
(* The records a run keeps.                                                *)
(***************************************************************************)
\* the number of entries of the lists of a sequence of lists
RECURSIVE TotalLen(_)
TotalLen(lists) ==
    IF lists = <<>> THEN 0 ELSE Len(Head(lists)) + TotalLen(Tail(lists))

\* the number of entries of the lists a mapping holds
RECURSIVE TotalHeld(_)
TotalHeld(d) ==
    IF DOMAIN d = {} THEN 0
    ELSE LET k == CHOOSE x \in DOMAIN d : TRUE
         IN  Len(d[k]) + TotalHeld([x \in DOMAIN d \ {k} |-> d[x]])

\* two of the selected files begin on the same date
SharedFirstDate ==
    \E j, k \in DOMAIN files :
        /\ j # k
        /\ FirstDate(ParseXmlResult(files[j]).trials)
           = FirstDate(ParseXmlResult(files[k]).trials)

\* C26: when two selected files begin on the same date the returned mapping
\* still holds the results of every file: its lists have as many entries
\* together as the selected files have trial records.
C26_NoResultLost ==
    (RunEnded /\ run_status = "returned" /\ SharedFirstDate)
    => TotalHeld(trials_per_date) = TotalLen(ListsInFileOrder)

\* 1833a.xml and 1845_sessions.xml begin on the same date and hold four
\* records together, and the returned mapping holds three
C26_Witness ==
    /\ RunEnded
    /\ run_status = "returned"
    /\ files = <<Name1833a, Name1845Sessions>>
    /\ SharedFirstDate
    /\ TotalLen(ListsInFileOrder) = 4
    /\ TotalHeld(trials_per_date) = 3


(***************************************************************************)
(* Properties of the report of categorise_offences.                        *)
(***************************************************************************)
VerdictCategories == {v.category : v \in SampleVerdicts}

\* the rows of a table that bear the verdict category
RowsOf(df, category) ==
    Cardinality({k \in DOMAIN df : df[k].verdictCategory = category})

TheftGrandLarceny == <<"theft", Some("grandLarceny")>>

\* C24: once the worksheets are written, the summary of every offence key
\* counts, for every verdict category, as many verdicts as the worksheet of
\* the key has rows of that category, whatever trials were folded in.
C24_SummaryMatchesSheet ==
    report_status = "written"
    => /\ DOMAIN sheets = DOMAIN offence_summaries
       /\ \A key \in DOMAIN offence_summaries :
             \A category \in VerdictCategories :
                Count(offence_summaries[key].verdict_categories, category)
                = RowsOf(sheets[key], category)

\* one trial was folded in, its Charge of two thefts of one type against
\* one defendant with one punishment: the summary counts two guilty
\* verdicts, the table holds two equal rows and the worksheet one
C24_Witness ==
    /\ report_status = "written"
    /\ total = 1
    /\ DOMAIN offence_summaries = {TheftGrandLarceny}
    /\ Count(offence_summaries[TheftGrandLarceny].verdict_categories, "guilty") = 2
    /\ Len(offence_full_infos[TheftGrandLarceny]) = 2
    /\ RowsOf(sheets[TheftGrandLarceny], "guilty") = 1

\* the defendants of the Charges of a trial that stand for an offence of the
\* key with a verdict of the category: one for each Charge, each offence of
\* the Charge and each defendant of the Charge
Counted(trial, key, category) ==
    { <<c, o, d>> \in (DOMAIN trial.charges) \X (1..MaxGroupLen)
                                              \X (1..MaxGroupLen) :
        /\ o \in DOMAIN trial.charges[c].offence
        /\ d \in DOMAIN trial.charges[c].defendant
        /\ offence_key(trial.charges[c].offence[o]) = key
        /\ trial.charges[c].verdict.category = category }

\* C27: folding a TrialData in raises, for every Charge, every offence of
\* the Charge and every defendant of the Charge, the count that the summary
\* of the offence keeps for the verdict category of the Charge by at least
\* one, also when the verdict is guilty and no punishment is linked to the
\* defendant.
C27_EveryChargeCounted ==
    [][\A trial \in SampleTrials(TrialId(total + 1)) :
          (trial # NoneResult /\ FoldTrial(trial))
          => \A c \in DOMAIN trial.charges :
                \A o \in Range(trial.charges[c].offence) :
                   LET key == offence_key(o)
                       category == trial.charges[c].verdict.category
                   IN  /\ key \in DOMAIN offence_summaries'
                       /\ Count(offence_summaries'[key].verdict_categories,
                                category)
                          >= Count(Get(offence_summaries, key, OffenceSummary)
                                      .verdict_categories, category)
                             + Cardinality(Counted(trial, key, category))]_vars

\* one trial was folded in, its Charge of one theft found two defendants
\* guilty, of whom one has a punishment: the summary counts one guilty
\* verdict and the table holds one row
C27_Witness ==
    /\ rpc = "trials"
    /\ total = 1
    /\ corrected_trials = 0
    /\ DOMAIN offence_summaries = {TheftGrandLarceny}
    /\ Count(offence_summaries[TheftGrandLarceny].verdict_categories, "guilty") = 1
    /\ Len(offence_full_infos[TheftGrandLarceny]) = 1
    /\ \E k \in DOMAIN offence_full_infos[TheftGrandLarceny] :
          offence_full_infos[TheftGrandLarceny][k].defendantName
          = SamplePerson("d1").name
    /\ DOMAIN offence_summaries[TheftGrandLarceny].punishments
       = {<<"imprison", None>>}
====
